---- MODULE Spec2Model ----
(***************************************************************************)
(* A model of dotenvor: the dotenv parser (src/src/parser.rs), the         *)
(* substitution resolver and the load driver (src/src/loader.rs) and the   *)
(* target store (src/src/env.rs).                                          *)
(*                                                                         *)
(* Text is a sequence of one-character strings; offsets are 0-based as in  *)
(* the source (B(s, i) is bytes[i], Slice(s, a, b) is &s[a..b]).  The      *)
(* model alphabet is ASCII, so byte offsets and char offsets coincide.     *)
(***************************************************************************)
EXTENDS Integers, Sequences, FiniteSets, TLC

VARIABLES
    loader,          \* EnvLoader's settings: paths, required, override_existing,
                     \* key_parsing_mode, substitution_mode, process (target kind)
    target,          \* TargetEnv: the key -> value map the loader writes to
    target0,         \* history: the target as it was before the call
    pc,              \* where the call is: collect, parse, subst, apply, done, error
    pathIdx,         \* collect_entries: index (1-based) of the path being read
    merged_entries,  \* collect_entries: merged_entries
    files_read,      \* collect_entries: files_read
    input,           \* parse_str_with_source: the normalized input
    offset,          \* parse_str_with_source: offset
    line_num,        \* parse_str_with_source: line_num
    entries,         \* parse_str_with_source: entries
    history,         \* history: every entry parse_line returned for this file, in order
    err,             \* the error the call returned, or NoErr
    raw_values,      \* SubstitutionResolver.raw_values
    resolved_values, \* SubstitutionResolver.resolved_values
    frames,          \* the resolve_key / expand_template activations in progress
    entryIdx,        \* apply_substitution / load: index (1-based) of the entry at hand
    events,          \* history: every resolve_placeholder call, with its result
    report,          \* LoadReport
    pass,            \* the number of the substitution pass over the entries
    os_env           \* dotenv run: the inherited environment, values as bytes

vars == <<loader, target, target0, pc, pathIdx, merged_entries, files_read, input,
          offset, line_num, entries, history, err, raw_values, resolved_values,
          frames, entryIdx, events, report, pass, os_env>>

parseVars == <<input, offset, line_num, entries, history>>
substVars == <<raw_values, resolved_values, frames, events>>

----------------------------------------------------------------------------
(* Text helpers *)

B(s, i) == s[i + 1]
Slice(s, a, b) == SubSeq(s, a + 1, b)
From(s, a) == SubSeq(s, a + 1, Len(s))
Range(s) == {s[i] : i \in 1..Len(s)}
Min(S) == CHOOSE x \in S : \A y \in S : x <= y
Max(S) == CHOOSE x \in S : \A y \in S : x >= y

\* characters that cannot be written as a string literal of one character
NUL == "<nul>"
Backtick == "<backtick>"
Upper == {"A","B","C","D","E","F","G","H","I","J","K","L","M",
          "N","O","P","Q","R","S","T","U","V","W","X","Y","Z"}
Lower == {"a","b","c","d","e","f","g","h","i","j","k","l","m",
          "n","o","p","q","r","s","t","u","v","w","x","y","z"}
Digit == {"0","1","2","3","4","5","6","7","8","9"}
Punct == {"!","\"","#","$","%","&","'","(",")","*","+",",","-",".","/",":",";",
          "<","=",">","?","@","[","\\","]","^","_",Backtick,"{","|","}","~"}

is_ascii_alphabetic(c) == c \in Upper \cup Lower
is_ascii_alphanumeric(c) == c \in Upper \cup Lower \cup Digit
is_whitespace(c) == c \in {" ", "\t", "\n", "\r", "\f"}

\* the first offset i in from..Len(s)-1 with s[i] = c, or Len(s)
IndexOf(s, c, from) ==
    LET hits == {i \in from..(Len(s) - 1) : B(s, i) = c}
    IN IF hits = {} THEN Len(s) ELSE Min(hits)

trim_start(s) ==
    LET keep == {i \in 0..(Len(s) - 1) : ~is_whitespace(B(s, i))}
    IN IF keep = {} THEN <<>> ELSE From(s, Min(keep))

trim_end(s) ==
    LET keep == {i \in 0..(Len(s) - 1) : ~is_whitespace(B(s, i))}
    IN IF keep = {} THEN <<>> ELSE Slice(s, 0, Max(keep) + 1)

starts_with(s, p) == Len(s) >= Len(p) /\ Slice(s, 0, Len(p)) = p

----------------------------------------------------------------------------
(* parser.rs *)

Strict == "Strict"
Permissive == "Permissive"

\* a normalization that turns every carriage return into a line feed and
\* keeps the line feed that follows it
normalize_newlines_each(s) == [i \in 1..Len(s) |-> IF s[i] = "\r" THEN "\n" ELSE s[i]]

normalize_newlines(s) ==
    LET keep == {i \in 0..(Len(s) - 1) :
                    ~(B(s, i) = "\n" /\ i > 0 /\ B(s, i - 1) = "\r")}
        F[i \in 0..Len(s)] ==
            IF i = Len(s) THEN <<>>
            ELSE IF i \notin keep THEN F[i + 1]
            ELSE <<(IF B(s, i) = "\r" THEN "\n" ELSE B(s, i))>> \o F[i + 1]
    IN F[0]

\* a test that takes no quote for escaped
is_preceded_by_odd_backslashes_never(bytes, idx) == FALSE

is_preceded_by_odd_backslashes(bytes, idx) ==
    LET stops == {c \in 0..idx : c = 0 \/ B(bytes, c - 1) # "\\"}
        cursor == Max(stops)
    IN (idx - cursor) % 2 = 1

is_valid_strict_key_char(ch) == is_ascii_alphanumeric(ch) \/ ch \in {"_", ".", "-"}

\* a permissive mode that accepts every character but "="
is_valid_permissive_key_char_any(ch) == ch # "="

is_valid_permissive_key_char(ch) ==
    ch \in (Upper \cup Lower \cup Digit \cup Punct) /\ ch # "="

is_valid_key(key, key_parsing_mode) ==
    IF key_parsing_mode = Strict
    THEN \A i \in 1..Len(key) : is_valid_strict_key_char(key[i])
    ELSE \A i \in 1..Len(key) : is_valid_permissive_key_char(key[i])

\* single-quoted text handed on as it is
escape_dollar_signs_off(value) == value

escape_dollar_signs(value) ==
    LET F[i \in 0..Len(value)] ==
            IF i = Len(value) THEN <<>>
            ELSE (IF B(value, i) = "$" THEN <<"\\", "$">> ELSE <<B(value, i)>>) \o F[i + 1]
    IN F[0]

Ok(v) == [ok |-> TRUE, value |-> v]
\* an error that is always reported at column 1
ParseError_column_1(line, column, kind) ==
    [ok |-> FALSE, line |-> line, column |-> 1, kind |-> kind]
ParseError(line, column, kind) ==
    [ok |-> FALSE, line |-> line, column |-> column, kind |-> kind]

\* the tail after a closing quote must be empty or a comment
TailOk(tail) == tail = <<>> \/ tail[1] = "#"

parse_literal_quoted(inp, quote, line, column) ==
    LET closes == {i \in 1..(Len(inp) - 1) :
                      B(inp, i) = quote /\ ~is_preceded_by_odd_backslashes(inp, i)}
    IN IF closes = {} THEN ParseError(line, column, "UnterminatedQuote")
       ELSE LET end_idx == Min(closes)
                tail == trim_start(From(inp, end_idx + 1))
            IN IF ~TailOk(tail)
               THEN ParseError(line, column + end_idx + 1, "InvalidSyntax")
               ELSE Ok(Slice(inp, 1, end_idx))

parse_single_quoted(inp, line, column, preserve) ==
    LET parsed == parse_literal_quoted(inp, "'", line, column)
    IN IF ~parsed.ok \/ ~preserve THEN parsed
       ELSE Ok(escape_dollar_signs(parsed.value))

parse_backtick_quoted(inp, line, column) ==
    parse_literal_quoted(inp, Backtick, line, column)

\* the for loop of parse_double_quoted from offset idx on:
\* [closing_idx (or -1), out]
RECURSIVE DoubleQuotedLoop(_, _, _, _, _)
DoubleQuotedLoop(inp, idx, escaped, out, preserve) ==
    IF idx >= Len(inp) THEN [closing_idx |-> -1, out |-> out]
    ELSE LET ch == B(inp, idx) IN
         IF escaped
         THEN LET unescaped ==
                     CASE ch = "n" -> <<"\n">>
                       [] ch = "r" -> <<"\r">>
                       [] ch = "t" -> <<"\t">>
                       [] ch = "$" /\ preserve -> <<"\\", "$">>
                       [] OTHER -> <<ch>>
              IN DoubleQuotedLoop(inp, idx + 1, FALSE, out \o unescaped, preserve)
         ELSE IF ch = "\\" THEN DoubleQuotedLoop(inp, idx + 1, TRUE, out, preserve)
         ELSE IF ch = "\"" THEN [closing_idx |-> idx, out |-> out]
         ELSE DoubleQuotedLoop(inp, idx + 1, FALSE, out \o <<ch>>, preserve)

\* a double-quoted parser that never keeps the backslash of an escaped dollar
parse_double_quoted_no_preserve(inp, line, column, preserve) ==
    LET r == DoubleQuotedLoop(inp, 1, FALSE, <<>>, FALSE)
    IN IF r.closing_idx = -1 THEN ParseError(line, column, "UnterminatedQuote")
       ELSE LET tail == trim_start(From(inp, r.closing_idx + 1))
            IN IF ~TailOk(tail)
               THEN ParseError(line, column + r.closing_idx + 1, "InvalidSyntax")
               ELSE Ok(r.out)

parse_double_quoted(inp, line, column, preserve) ==
    LET r == DoubleQuotedLoop(inp, 1, FALSE, <<>>, preserve)
    IN IF r.closing_idx = -1 THEN ParseError(line, column, "UnterminatedQuote")
       ELSE LET tail == trim_start(From(inp, r.closing_idx + 1))
            IN IF ~TailOk(tail)
               THEN ParseError(line, column + r.closing_idx + 1, "InvalidSyntax")
               ELSE Ok(r.out)

parse_value(inp, line, column, preserve) ==
    IF inp = <<>> THEN Ok(<<>>)
    ELSE IF inp[1] = "'" THEN parse_single_quoted(inp, line, column, preserve)
    ELSE IF inp[1] = "\"" THEN parse_double_quoted(inp, line, column, preserve)
    ELSE IF inp[1] = Backtick THEN parse_backtick_quoted(inp, line, column)
    ELSE Ok(trim_end(Slice(inp, 0, IndexOf(inp, "#", 0))))

EXPORT == <<"e", "x", "p", "o", "r", "t">>

\* [kind |-> "none"], [kind |-> "entry", key, value, line] or
\* [kind |-> "err", error]
parse_line(line, line_no, key_parsing_mode, preserve) ==
    LET w0 == trim_start(line) IN
    IF w0 = <<>> \/ w0[1] = "#" THEN [kind |-> "none"]
    ELSE
    LET rest == From(w0, Len(EXPORT))
        working == IF starts_with(w0, EXPORT) /\ rest # <<>> /\ is_whitespace(rest[1])
                   THEN trim_start(rest) ELSE w0
        eq_idx == IndexOf(working, "=", 0)
    IN IF working = <<>>
       THEN [kind |-> "err", error |-> ParseError(line_no, 1, "MissingKey")]
       ELSE IF eq_idx = Len(working)
       THEN [kind |-> "err",
             error |-> ParseError(line_no, Len(working) + 1, "InvalidSyntax")]
       ELSE
       LET key == trim_end(Slice(working, 0, eq_idx)) IN
       IF key = <<>>
       THEN [kind |-> "err", error |-> ParseError(line_no, 1, "MissingKey")]
       ELSE IF ~is_valid_key(key, key_parsing_mode)
       THEN [kind |-> "err", error |-> ParseError(line_no, 1, "InvalidKey")]
       ELSE
       LET value_input == trim_start(From(working, eq_idx + 1))
           value_column == (Len(line) - Len(value_input)) + 1
           value == parse_value(value_input, line_no, value_column, preserve)
       IN IF ~value.ok THEN [kind |-> "err", error |-> value]
          ELSE [kind |-> "entry",
                entry |-> [key |-> key, value |-> value.value, line |-> line_no]]

\* the inner while loop of parse_str_with_source: where the statement that
\* starts at idx ends, and the line feeds it holds
RECURSIVE ScanStatement(_, _, _, _, _)
ScanStatement(bytes, idx, newline_count, active_quote, value_started) ==
    IF idx >= Len(bytes) THEN [idx |-> idx, newline_count |-> newline_count]
    ELSE LET byte == B(bytes, idx) IN
         IF byte = "\n"
         THEN IF active_quote = ""
              THEN [idx |-> idx, newline_count |-> newline_count + 1]
              ELSE ScanStatement(bytes, idx + 1, newline_count + 1, active_quote,
                                 value_started)
         ELSE IF active_quote # ""
         THEN ScanStatement(bytes, idx + 1, newline_count,
                  IF byte = active_quote /\ ~is_preceded_by_odd_backslashes(bytes, idx)
                  THEN "" ELSE active_quote,
                  value_started)
         ELSE IF ~value_started /\ byte = "="
         THEN ScanStatement(bytes, idx + 1, newline_count, active_quote, TRUE)
         ELSE IF value_started /\ byte \in {"\"", "'", Backtick}
         THEN ScanStatement(bytes, idx + 1, newline_count, byte, value_started)
         ELSE ScanStatement(bytes, idx + 1, newline_count, active_quote, value_started)

\* the key -> index lookup (by_key) of an entry table
HasKey(table, key) == \E i \in 1..Len(table) : table[i].key = key
IndexOfKey(table, key) == CHOOSE i \in 1..Len(table) : table[i].key = key

\* an entry table whose redefined key moves to the end
InsertEntry_at_end(table, entry) ==
    Append(SelectSeq(table, LAMBDA e : e.key # entry.key), entry)

\* the entry table with one more entry: overwrite in place or push
InsertEntry(table, entry) ==
    IF HasKey(table, entry.key)
    THEN [table EXCEPT ![IndexOfKey(table, entry.key)] = entry]
    ELSE Append(table, entry)

\* a merge in which the first file to define a key wins
MergeEntries_keep_first(table, parsed) ==
    table \o SelectSeq(parsed, LAMBDA e : ~HasKey(table, e.key))

RECURSIVE MergeEntries(_, _)
MergeEntries(table, parsed) ==
    IF parsed = <<>> THEN table
    ELSE MergeEntries(InsertEntry(table, Head(parsed)), Tail(parsed))

----------------------------------------------------------------------------
(* env.rs *)

\* a store that reports no key as present
contains_key_never(env, key) == FALSE
contains_key(env, key) == key \in DOMAIN env
\* a base store that is never consulted
get_var_absent(env, key) == [some |-> FALSE, value |-> <<>>]
get_var(env, key) ==
    IF key \in DOMAIN env THEN [some |-> TRUE, value |-> env[key]]
    ELSE [some |-> FALSE, value |-> <<>>]

validate_process_env_pair(key, value) ==
    ~(NUL \in Range(key) \/ "=" \in Range(key)) /\ ~(NUL \in Range(value))

\* a set_var that never refuses a pair
set_var_ok_always(process, key, value) == TRUE
\* whether set_var succeeds
set_var_ok(process, key, value) == ~process \/ validate_process_env_pair(key, value)

----------------------------------------------------------------------------
(* loader.rs: the placeholder scanner *)

is_braced_var_char(byte, key_parsing_mode) ==
    IF key_parsing_mode = Strict
    THEN is_ascii_alphanumeric(byte) \/ byte \in {"_", ".", "-"}
    ELSE is_valid_permissive_key_char(byte)

is_unbraced_var_start(byte) == is_ascii_alphabetic(byte) \/ byte = "_"
is_unbraced_var_char(byte) == is_ascii_alphanumeric(byte) \/ byte = "_"

NoPlaceholder ==
    [ok |-> FALSE, name_start |-> 0, name_end |-> 0, has_default |-> FALSE,
     default_start |-> 0, default_end |-> 0, token_end |-> 0]
Placeholder(name_start, name_end, has_default, default_start, default_end, token_end) ==
    [ok |-> TRUE, name_start |-> name_start, name_end |-> name_end,
     has_default |-> has_default, default_start |-> default_start,
     default_end |-> default_end, token_end |-> token_end]

AllBraced(inp, a, b, key_parsing_mode) ==
    a < b /\ \A i \in a..(b - 1) : is_braced_var_char(B(inp, i), key_parsing_mode)

\* the ":-" split attempted under every key mode
operator_split_always(key_parsing_mode) == TRUE
\* whether the ":-" split of a braced placeholder is attempted
operator_split(key_parsing_mode) == key_parsing_mode = Strict

parse_placeholder(inp, start, key_parsing_mode) ==
    IF start + 1 >= Len(inp) THEN NoPlaceholder
    ELSE IF B(inp, start + 1) = "{"
    THEN LET end == IndexOf(inp, "}", start + 2)
             name_start == start + 2
             token_end == end + 1
             ops == {i \in name_start..(end - 2) : B(inp, i) = ":" /\ B(inp, i + 1) = "-"}
         IN IF end >= Len(inp) THEN NoPlaceholder
            ELSE IF operator_split(key_parsing_mode) /\ ops # {}
            THEN LET name_end == Min(ops) IN
                 IF ~AllBraced(inp, name_start, name_end, key_parsing_mode)
                 THEN NoPlaceholder
                 ELSE Placeholder(name_start, name_end, TRUE, name_end + 2, end, token_end)
            ELSE IF ~AllBraced(inp, name_start, end, key_parsing_mode)
            THEN NoPlaceholder
            ELSE Placeholder(name_start, end, FALSE, 0, 0, token_end)
    ELSE LET name_start == start + 1 IN
         IF ~is_unbraced_var_start(B(inp, name_start)) THEN NoPlaceholder
         ELSE LET stops == {i \in (name_start + 1)..Len(inp) :
                               i = Len(inp) \/ ~is_unbraced_var_char(B(inp, i))}
                  name_end == Min(stops)
              IN Placeholder(name_start, name_end, FALSE, 0, 0, name_end)

\* an escape test that counts the backslashes before the dollar sign
is_escaped_dollar_by_parity(inp, idx) == is_preceded_by_odd_backslashes(inp, idx)

\* expand_template's test for an escaped dollar sign at idx
is_escaped_dollar(inp, idx) == idx > 0 /\ B(inp, idx - 1) = "\\"

----------------------------------------------------------------------------
(* loader.rs: SubstitutionResolver *)

Frame(key, raw) ==
    [key |-> key, input |-> raw, idx |-> 0, cursor |-> 0, out |-> <<>>,
     pending |-> NoPlaceholder]

Stack(fs) == [i \in 1..Len(fs) |-> fs[i].key]

Memoize(memo, key, value) == (key :> value) @@ memo

\* resolve_key without its check of the base store
resolve_key_file_first(key, memo, env, raws, override_existing) ==
    IF key \in DOMAIN memo
    THEN [push |-> FALSE, value |-> memo[key], memo |-> memo]
    ELSE IF key \notin DOMAIN raws
    THEN [push |-> FALSE, value |-> get_var(env, key).value, memo |-> memo]
    ELSE [push |-> TRUE, value |-> <<>>, memo |-> memo]

\* resolve_key up to the point where it expands the raw value:
\* what it returns at once, or that it must expand (push)
resolve_key(key, memo, env, raws, override_existing) ==
    IF key \in DOMAIN memo
    THEN [push |-> FALSE, value |-> memo[key], memo |-> memo]
    ELSE IF ~override_existing /\ contains_key(env, key)
    THEN [push |-> FALSE, value |-> get_var(env, key).value,
          memo |-> Memoize(memo, key, get_var(env, key).value)]
    ELSE IF key \notin DOMAIN raws
    THEN [push |-> FALSE, value |-> get_var(env, key).value, memo |-> memo]
    ELSE [push |-> TRUE, value |-> <<>>, memo |-> memo]

\* a resolver without cycle detection
in_progress_never(name, stack) == FALSE
\* whether resolve_placeholder refuses to expand name (a reference cycle)
in_progress(name, stack) == name \in Range(stack)

\* the fallback for a value that is not there: default.unwrap_or(token)
default_or_token(token, has_default, default) ==
    IF has_default THEN default ELSE token

\* a default used only for a name that is not defined
value_or_default_unset_only(value, has_default, default) == value
\* what resolve_placeholder returns for the value found for the name
value_or_default(value, has_default, default) ==
    IF has_default /\ value = <<>> THEN default ELSE value

\* a resolver that expands only keys resolved before (no forward reference)
resolve_placeholder_backward_only(name, token, has_default, default, stack, memo, env, raws, override) ==
    IF name \in DOMAIN memo
    THEN [push |-> FALSE, value |-> value_or_default(memo[name], has_default, default),
          memo |-> memo]
    ELSE [push |-> FALSE, value |-> default_or_token(token, has_default, default),
          memo |-> memo]

\* a resolver that asks the base store before it looks at the stack
resolve_placeholder_base_first(name, token, has_default, default, stack, memo, env, raws, override) ==
    IF get_var(env, name).some
    THEN [push |-> FALSE,
          value |-> value_or_default(get_var(env, name).value, has_default, default),
          memo |-> memo]
    ELSE IF in_progress(name, stack)
    THEN [push |-> FALSE, value |-> default_or_token(token, has_default, default),
          memo |-> memo]
    ELSE IF name \in DOMAIN raws
    THEN resolve_key(name, memo, env, raws, override)
    ELSE [push |-> FALSE, value |-> default_or_token(token, has_default, default),
          memo |-> memo]

\* resolve_placeholder up to a recursive expansion
\* (stack, memo, env, raws and override are the resolver's fields)
resolve_placeholder(name, token, has_default, default, stack, memo, env, raws, override) ==
    IF in_progress(name, stack)
    THEN [push |-> FALSE, value |-> default_or_token(token, has_default, default),
          memo |-> memo]
    ELSE IF name \in DOMAIN raws
    THEN LET r == resolve_key(name, memo, env, raws, override) IN
         IF r.push THEN r
         ELSE [r EXCEPT !.value = value_or_default(r.value, has_default, default)]
    ELSE IF get_var(env, name).some
    THEN [push |-> FALSE,
          value |-> value_or_default(get_var(env, name).value, has_default, default),
          memo |-> memo]
    ELSE [push |-> FALSE, value |-> default_or_token(token, has_default, default),
          memo |-> memo]

----------------------------------------------------------------------------
(* The state machine: EnvLoader::load *)

Expand == "Expand"
Disabled == "Disabled"

NoErr == [kind |-> "none"]
EmptyMap == [k \in {} |-> <<>>]
EmptyReport == [loaded |-> 0, skipped_existing |-> 0, files_read |-> 0]

\* the state in which a loader with these settings and this target starts to
\* collect its entries
StartCall(settings, env) ==
    /\ loader = settings
    /\ target = env
    /\ target0 = env
    /\ pc = "collect"
    /\ pathIdx = 1
    /\ merged_entries = <<>>
    /\ files_read = 0
    /\ input = <<>>
    /\ offset = 0
    /\ line_num = 1
    /\ entries = <<>>
    /\ history = <<>>
    /\ err = NoErr
    /\ raw_values = EmptyMap
    /\ resolved_values = EmptyMap
    /\ frames = <<>>
    /\ entryIdx = 1
    /\ events = <<>>
    /\ report = EmptyReport
    /\ pass = 1

\* the state in which load() is called on a loader with these settings
Start(settings, env) == StartCall(settings, env) /\ os_env = EmptyMap

(* collect_entries and read_entries *)

ReadFile ==
    /\ pc = "collect"
    /\ pathIdx <= Len(loader.paths)
    /\ loader.paths[pathIdx].exists
    /\ input' = normalize_newlines(loader.paths[pathIdx].text)
    /\ offset' = 0
    /\ line_num' = 1
    /\ entries' = <<>>
    /\ history' = <<>>
    /\ pc' = "parse"
    /\ UNCHANGED <<loader, pass, os_env, target, target0, pathIdx, merged_entries, files_read, err,
                   substVars, entryIdx, report>>

\* a skip that counts the missing file as read
ReadMissingSkip_counted ==
    /\ pc = "collect"
    /\ pathIdx <= Len(loader.paths)
    /\ ~loader.paths[pathIdx].exists
    /\ ~loader.required
    /\ pathIdx' = pathIdx + 1
    /\ files_read' = files_read + 1
    /\ UNCHANGED <<loader, pass, os_env, target, target0, pc, merged_entries, parseVars,
                   err, substVars, entryIdx, report>>

ReadMissingSkip ==
    /\ pc = "collect"
    /\ pathIdx <= Len(loader.paths)
    /\ ~loader.paths[pathIdx].exists
    /\ ~loader.required
    /\ pathIdx' = pathIdx + 1
    /\ UNCHANGED <<loader, pass, os_env, target, target0, pc, merged_entries, files_read, parseVars,
                   err, substVars, entryIdx, report>>

ReadMissingFail ==
    /\ pc = "collect"
    /\ pathIdx <= Len(loader.paths)
    /\ ~loader.paths[pathIdx].exists
    /\ loader.required
    /\ err' = [kind |-> "Io"]
    /\ pc' = "error"
    /\ UNCHANGED <<loader, pass, os_env, target, target0, pathIdx, merged_entries, files_read,
                   parseVars, substVars, entryIdx, report>>

CollectDone ==
    /\ pc = "collect"
    /\ pathIdx > Len(loader.paths)
    /\ pc' = "subst"
    /\ UNCHANGED <<loader, pass, os_env, target, target0, pathIdx, merged_entries, files_read,
                   parseVars, err, substVars, entryIdx, report>>

(* parse_str_with_source: one pass of the outer loop *)

\* a segmenter that counts at most one line feed per statement
Segment_one_line ==
    LET seg == ScanStatement(input, offset, 0, "", FALSE)
    IN  [seg EXCEPT !.newline_count = IF @ > 1 THEN 1 ELSE @]

Segment == ScanStatement(input, offset, 0, "", FALSE)
Statement == Slice(input, offset, Segment.idx)
Parsed ==
    parse_line(Statement, line_num, loader.key_parsing_mode,
               loader.substitution_mode = Expand)
NextOffset ==
    IF Segment.idx < Len(input) /\ B(input, Segment.idx) = "\n"
    THEN Segment.idx + 1 ELSE Segment.idx

ParseSkip ==
    /\ pc = "parse"
    /\ offset < Len(input)
    /\ Parsed.kind = "none"
    /\ offset' = NextOffset
    /\ line_num' = line_num + Segment.newline_count
    /\ UNCHANGED <<loader, pass, os_env, target, target0, pc, pathIdx, merged_entries, files_read,
                   input, entries, history, err, substVars, entryIdx, report>>

ParseEntry ==
    /\ pc = "parse"
    /\ offset < Len(input)
    /\ Parsed.kind = "entry"
    /\ entries' = InsertEntry(entries, Parsed.entry)
    /\ history' = Append(history, Parsed.entry)
    /\ offset' = NextOffset
    /\ line_num' = line_num + Segment.newline_count
    /\ UNCHANGED <<loader, pass, os_env, target, target0, pc, pathIdx, merged_entries, files_read,
                   input, err, substVars, entryIdx, report>>

ParseFail ==
    /\ pc = "parse"
    /\ offset < Len(input)
    /\ Parsed.kind = "err"
    /\ err' = [kind |-> "Parse", error |-> Parsed.error]
    /\ pc' = "error"
    /\ UNCHANGED <<loader, pass, os_env, target, target0, pathIdx, merged_entries, files_read,
                   parseVars, substVars, entryIdx, report>>

\* the end of a file that also writes the file's first entry to the target
FinishFile_writes ==
    /\ pc = "parse"
    /\ offset >= Len(input)
    /\ merged_entries' = IF Len(loader.paths) = 1 THEN entries
                         ELSE MergeEntries(merged_entries, entries)
    /\ files_read' = files_read + 1
    /\ pathIdx' = pathIdx + 1
    /\ pc' = "collect"
    /\ target' = IF entries = <<>> THEN target
                 ELSE Memoize(target, entries[1].key, entries[1].value)
    /\ UNCHANGED <<loader, pass, os_env, target0, parseVars, err, substVars, entryIdx, report>>

FinishFile ==
    /\ pc = "parse"
    /\ offset >= Len(input)
    /\ merged_entries' = IF Len(loader.paths) = 1 THEN entries
                         ELSE MergeEntries(merged_entries, entries)
    /\ files_read' = files_read + 1
    /\ pathIdx' = pathIdx + 1
    /\ pc' = "collect"
    /\ UNCHANGED <<loader, pass, os_env, target, target0, parseVars, err, substVars, entryIdx, report>>

(* apply_substitution *)

raw_values_of(table) ==
    [k \in {table[i].key : i \in 1..Len(table)} |-> table[IndexOfKey(table, k)].value]

SubstitutionDisabled ==
    /\ pc = "subst"
    /\ loader.substitution_mode = Disabled
    /\ pc' = "apply"
    /\ entryIdx' = 1
    /\ report' = [EmptyReport EXCEPT !.files_read = files_read]
    /\ UNCHANGED <<loader, pass, os_env, target, target0, pathIdx, merged_entries, files_read,
                   parseVars, err, substVars>>

ResolverNew ==
    /\ pc = "subst"
    /\ loader.substitution_mode = Expand
    /\ raw_values' = raw_values_of(merged_entries)
    /\ resolved_values' = EmptyMap
    /\ frames' = <<>>
    /\ entryIdx' = 1
    /\ pc' = "resolve"
    /\ UNCHANGED <<loader, pass, os_env, target, target0, pathIdx, merged_entries, files_read,
                   parseVars, err, events, report>>

EntryKey == merged_entries[entryIdx].key
EntryResolve ==
    resolve_key(EntryKey, resolved_values, target, raw_values, loader.override_existing)

\* resolve_entry returns at once: the key is memoized or kept from the target
ResolveEntryNow ==
    /\ pc = "resolve"
    /\ frames = <<>>
    /\ entryIdx <= Len(merged_entries)
    /\ ~EntryResolve.push
    /\ merged_entries' = [merged_entries EXCEPT ![entryIdx].value = EntryResolve.value]
    /\ resolved_values' = EntryResolve.memo
    /\ entryIdx' = entryIdx + 1
    /\ UNCHANGED <<loader, pass, os_env, target, target0, pc, pathIdx, files_read, parseVars, err,
                   raw_values, frames, events, report>>

\* resolve_entry starts to expand the raw value
ResolveEntryExpand ==
    /\ pc = "resolve"
    /\ frames = <<>>
    /\ entryIdx <= Len(merged_entries)
    /\ EntryResolve.push
    /\ frames' = <<Frame(EntryKey, raw_values[EntryKey])>>
    /\ UNCHANGED <<loader, pass, os_env, target, target0, pc, pathIdx, merged_entries, files_read,
                   parseVars, err, raw_values, resolved_values, entryIdx, events, report>>

SubstitutionDone ==
    /\ pc = "resolve"
    /\ frames = <<>>
    /\ entryIdx > Len(merged_entries)
    /\ pc' = "apply"
    /\ entryIdx' = 1
    /\ report' = [EmptyReport EXCEPT !.files_read = files_read]
    /\ UNCHANGED <<loader, pass, os_env, target, target0, pathIdx, merged_entries, files_read,
                   parseVars, err, substVars>>

MaxPasses == 2

\* apply_substitution is called once more, on the entries it has resolved
SubstituteAgain ==
    /\ pc = "apply"
    /\ loader.substitution_mode = Expand
    /\ pass < MaxPasses
    /\ pass' = pass + 1
    /\ pc' = "subst"
    /\ events' = <<>>
    /\ report' = EmptyReport
    /\ UNCHANGED <<loader, os_env, target, target0, pathIdx, merged_entries, files_read,
                   parseVars, err, raw_values, resolved_values, frames, entryIdx>>

(* expand_template on the innermost activation *)

Top == frames[Len(frames)]
Dollar == IndexOf(Top.input, "$", Top.idx)
Found == parse_placeholder(Top.input, Dollar, loader.key_parsing_mode)
Name(f, p) == Slice(f.input, p.name_start, p.name_end)
Token(f, from, p) == Slice(f.input, from, p.token_end)
Default(f, p) == Slice(f.input, p.default_start, p.default_end)
Resolved ==
    resolve_placeholder(Name(Top, Found), Token(Top, Dollar, Found), Found.has_default,
                        Default(Top, Found), Stack(frames), resolved_values, target,
                        raw_values, loader.override_existing)
Event(f, from, p, stack, result) ==
    [key |-> f.key, name |-> Name(f, p), token |-> Token(f, from, p),
     has_default |-> p.has_default, default |-> Default(f, p), stack |-> stack,
     result |-> result]
SetTop(f) == [frames EXCEPT ![Len(frames)] = f]

ExpandEscapedDollar ==
    /\ pc = "resolve"
    /\ frames # <<>>
    /\ Dollar < Len(Top.input)
    /\ is_escaped_dollar(Top.input, Dollar)
    /\ frames' = SetTop([Top EXCEPT
                           !.out = Top.out \o Slice(Top.input, Top.cursor, Dollar - 1)
                                           \o <<"$">>,
                           !.cursor = Dollar + 1,
                           !.idx = Dollar + 1])
    /\ UNCHANGED <<loader, pass, os_env, target, target0, pc, pathIdx, merged_entries, files_read,
                   parseVars, err, raw_values, resolved_values, entryIdx, events, report>>

\* a scan that drops a dollar sign that starts no placeholder
ExpandInertDollar_dropped ==
    /\ pc = "resolve"
    /\ frames # <<>>
    /\ Dollar < Len(Top.input)
    /\ ~is_escaped_dollar(Top.input, Dollar)
    /\ ~Found.ok
    /\ frames' = SetTop([Top EXCEPT
                           !.out = Top.out \o Slice(Top.input, Top.cursor, Dollar),
                           !.cursor = Dollar + 1,
                           !.idx = Dollar + 1])
    /\ UNCHANGED <<loader, pass, os_env, target, target0, pc, pathIdx, merged_entries, files_read,
                   parseVars, err, raw_values, resolved_values, entryIdx, events, report>>

ExpandInertDollar ==
    /\ pc = "resolve"
    /\ frames # <<>>
    /\ Dollar < Len(Top.input)
    /\ ~is_escaped_dollar(Top.input, Dollar)
    /\ ~Found.ok
    /\ frames' = SetTop([Top EXCEPT !.idx = Dollar + 1])
    /\ UNCHANGED <<loader, pass, os_env, target, target0, pc, pathIdx, merged_entries, files_read,
                   parseVars, err, raw_values, resolved_values, entryIdx, events, report>>

\* the scan stands at a dollar sign that starts a placeholder
AtPlaceholder ==
    /\ pc = "resolve"
    /\ frames # <<>>
    /\ Dollar < Len(Top.input)
    /\ ~is_escaped_dollar(Top.input, Dollar)
    /\ Found.ok

ExpandPlaceholder ==
    /\ AtPlaceholder
    /\ ~Resolved.push
    /\ frames' = SetTop([Top EXCEPT
                           !.out = Top.out \o Slice(Top.input, Top.cursor, Dollar)
                                           \o Resolved.value,
                           !.cursor = Found.token_end,
                           !.idx = Found.token_end])
    /\ resolved_values' = Resolved.memo
    /\ events' = Append(events, Event(Top, Dollar, Found, Stack(frames), Resolved.value))
    /\ UNCHANGED <<loader, pass, os_env, target, target0, pc, pathIdx, merged_entries, files_read,
                   parseVars, err, raw_values, entryIdx, report>>

\* the placeholder names a file key that is not resolved yet: resolve_key
\* expands it.  Distinct keys bound the depth; the guard on the depth stops a
\* resolver that would recurse without bound one level past that bound.
ExpandRecurse ==
    /\ AtPlaceholder
    /\ Resolved.push
    /\ Len(frames) <= Len(merged_entries)
    /\ frames' = Append(SetTop([Top EXCEPT
                                  !.out = Top.out \o Slice(Top.input, Top.cursor, Dollar),
                                  !.idx = Dollar,
                                  !.pending = Found]),
                        Frame(Name(Top, Found), raw_values[Name(Top, Found)]))
    /\ UNCHANGED <<loader, pass, os_env, target, target0, pc, pathIdx, merged_entries, files_read,
                   parseVars, err, raw_values, resolved_values, entryIdx, events, report>>

Expanded == Top.out \o From(Top.input, Top.cursor)

\* the outermost expand_template returns: resolve_entry's value for the entry
ExpandReturnToEntry ==
    /\ pc = "resolve"
    /\ Len(frames) = 1
    /\ Dollar >= Len(Top.input)
    /\ resolved_values' = Memoize(resolved_values, Top.key, Expanded)
    /\ merged_entries' = [merged_entries EXCEPT ![entryIdx].value = Expanded]
    /\ entryIdx' = entryIdx + 1
    /\ frames' = <<>>
    /\ UNCHANGED <<loader, pass, os_env, target, target0, pc, pathIdx, files_read, parseVars, err,
                   raw_values, events, report>>

\* a nested expand_template returns into resolve_placeholder of its caller
ExpandReturnToCaller ==
    /\ pc = "resolve"
    /\ Len(frames) > 1
    /\ Dollar >= Len(Top.input)
    /\ LET caller == frames[Len(frames) - 1]
           p == caller.pending
           value == value_or_default(Expanded, p.has_default, Default(caller, p))
           below == SubSeq(frames, 1, Len(frames) - 2)
       IN /\ frames' = Append(below, [caller EXCEPT
                                        !.out = caller.out \o value,
                                        !.cursor = p.token_end,
                                        !.idx = p.token_end,
                                        !.pending = NoPlaceholder])
          /\ events' = Append(events, Event(caller, caller.idx, p,
                                            Stack(SubSeq(frames, 1, Len(frames) - 1)),
                                            value))
    /\ resolved_values' = Memoize(resolved_values, Top.key, Expanded)
    /\ UNCHANGED <<loader, pass, os_env, target, target0, pc, pathIdx, merged_entries, files_read,
                   parseVars, err, raw_values, entryIdx, report>>

(* load: the loop over the entries *)

ApplySkip ==
    /\ pc = "apply"
    /\ entryIdx <= Len(merged_entries)
    /\ ~loader.override_existing
    /\ contains_key(target, merged_entries[entryIdx].key)
    /\ report' = [report EXCEPT !.skipped_existing = @ + 1]
    /\ entryIdx' = entryIdx + 1
    /\ UNCHANGED <<loader, pass, os_env, target, target0, pc, pathIdx, merged_entries, files_read,
                   parseVars, err, substVars>>

ApplySet ==
    /\ pc = "apply"
    /\ entryIdx <= Len(merged_entries)
    /\ ~(~loader.override_existing /\ contains_key(target, merged_entries[entryIdx].key))
    /\ set_var_ok(loader.process, merged_entries[entryIdx].key,
                  merged_entries[entryIdx].value)
    /\ target' = Memoize(target, merged_entries[entryIdx].key,
                         merged_entries[entryIdx].value)
    /\ report' = [report EXCEPT !.loaded = @ + 1]
    /\ entryIdx' = entryIdx + 1
    /\ UNCHANGED <<loader, pass, os_env, target0, pc, pathIdx, merged_entries, files_read,
                   parseVars, err, substVars>>

ApplyFail ==
    /\ pc = "apply"
    /\ entryIdx <= Len(merged_entries)
    /\ ~(~loader.override_existing /\ contains_key(target, merged_entries[entryIdx].key))
    /\ ~set_var_ok(loader.process, merged_entries[entryIdx].key,
                   merged_entries[entryIdx].value)
    /\ err' = [kind |-> "Io"]
    /\ pc' = "error"
    /\ UNCHANGED <<loader, pass, os_env, target, target0, pathIdx, merged_entries, files_read,
                   parseVars, substVars, entryIdx, report>>

LoadDone ==
    /\ pc = "apply"
    /\ entryIdx > Len(merged_entries)
    /\ pc' = "done"
    /\ UNCHANGED <<loader, pass, os_env, target, target0, pathIdx, merged_entries, files_read,
                   parseVars, err, substVars, entryIdx, report>>

----------------------------------------------------------------------------
(* The substitution pass on its own: the entry tables it is given *)

MaxEntries == 3

Settings(paths, required, override, keys, substitution, process) ==
    [paths |-> paths, required |-> required, override_existing |-> override,
     key_parsing_mode |-> keys, substitution_mode |-> substitution, process |-> process]

File(text) == [exists |-> TRUE, text |-> text]
Missing == [exists |-> FALSE, text |-> <<>>]

KeyNames == <<"A", "B", "C", "D", "E", "F">>
KeyC == <<"C">>
KeyCd == <<"C", ":", "-", "d">>
\* the i-th key of a table; under permissive keys the third may be named C:-d
KeyOf(i, third) == IF i = 3 THEN third ELSE <<KeyNames[i]>>

\* raw values: literals, an escaped dollar followed by an inert one, and the
\* placeholders $A, ${B}, x${C:-d}y and $D
ValueSet ==
    {<<>>, <<"v">>, <<"\\", "$", "A", "$", "{">>,
     <<"$", "A">>, <<"$", "{", "B", "}">>,
     <<"x", "$", "{", "C", ":", "-", "d", "}", "y">>, <<"$", "D">>}

Entry(key, value, line) == [key |-> key, value |-> value, line |-> line]

\* A=$B, B=${C}, C=value
ExampleChain ==
    <<Entry(<<"A">>, <<"$", "B">>, 1), Entry(<<"B">>, <<"$", "{", "C", "}">>, 2),
      Entry(<<"C">>, <<"v", "a", "l", "u", "e">>, 3)>>

Tables(third) ==
    UNION {{[i \in 1..n |-> Entry(KeyOf(i, third), vals[i], i)] :
               vals \in [1..n -> ValueSet]} : n \in 1..MaxEntries}
    \cup {ExampleChain}

Map1(k, v) == (<<k>> :> v)
BaseAB == Map1("A", <<"e">>) @@ Map1("B", <<"e">>)
BaseC0 == Map1("C", <<>>)
BaseCD == Map1("C", <<"e">>) @@ Map1("D", <<"m">>)
BaseCd == (KeyCd :> <<"p">>)

\* key mode, override_existing, base store, name of the third key
ResolveOptions ==
    {<<Strict, FALSE, EmptyMap, KeyC>>,
     <<Strict, FALSE, BaseAB, KeyC>>, <<Strict, TRUE, BaseAB, KeyC>>,
     <<Strict, FALSE, BaseC0, KeyC>>,
     <<Strict, FALSE, BaseCD, KeyC>>,
     <<Permissive, FALSE, EmptyMap, KeyCd>>,
     <<Permissive, FALSE, BaseCd, KeyCd>>, <<Permissive, TRUE, BaseCd, KeyCd>>}

\* the file that holds a table: a KEY=value line for each entry
RECURSIVE RenderTable(_)
RenderTable(table) ==
    IF table = <<>> THEN <<>>
    ELSE Head(table).key \o <<"=">> \o Head(table).value \o <<"\n">>
         \o RenderTable(Tail(table))

\* collect_entries has returned this table
Collected(settings, env, table) ==
    /\ loader = settings
    /\ target = env
    /\ target0 = env
    /\ pc = "subst"
    /\ pathIdx = 2
    /\ merged_entries = table
    /\ files_read = 1
    /\ input = RenderTable(table)
    /\ offset = Len(RenderTable(table))
    /\ line_num = Len(table) + 1
    /\ entries = table
    /\ history = table
    /\ err = NoErr
    /\ raw_values = EmptyMap
    /\ resolved_values = EmptyMap
    /\ frames = <<>>
    /\ entryIdx = 1
    /\ events = <<>>
    /\ report = EmptyReport
    /\ pass = 1
    /\ os_env = EmptyMap

InitResolve ==
    \E o \in ResolveOptions : \E table \in Tables(o[4]) :
        Collected(Settings(<<File(RenderTable(table))>>, TRUE, o[2], o[1], Expand, FALSE),
                  o[3], table)

NextResolve ==
    \/ ResolverNew
    \/ ResolveEntryNow
    \/ ResolveEntryExpand
    \/ SubstitutionDone
    \/ ExpandEscapedDollar
    \/ ExpandInertDollar
    \/ ExpandPlaceholder
    \/ ExpandRecurse
    \/ ExpandReturnToEntry
    \/ ExpandReturnToCaller

SpecResolve == InitResolve /\ [][NextResolve]_vars

\* The substitution pass run again on its own result: tables of up to
\* MaxEntries - 1 entries over a literal, an inert dollar, escaped dollars
\* after one and two backslashes, and references to B and C
TwiceValues ==
    {<<"v">>, <<"$">>, <<"\\", "$">>, <<"\\", "\\", "$">>, <<"$", "B">>, <<"$", "C">>,
     <<"\\", "\\", "$", "C">>}

TwiceTables ==
    UNION {{[i \in 1..n |-> Entry(<<KeyNames[i]>>, vals[i], i)] :
               vals \in [1..n -> TwiceValues]} : n \in 1..(MaxEntries - 1)}

BaseEscC == Map1("C", <<"\\", "$">>)
BaseEscA == Map1("A", <<"\\", "$">>) @@ Map1("C", <<"e">>)

\* override_existing, base store
TwiceOptions ==
    {<<FALSE, EmptyMap>>, <<FALSE, BaseEscC>>, <<FALSE, BaseEscA>>, <<TRUE, BaseEscA>>}

InitTwice ==
    \E o \in TwiceOptions : \E table \in TwiceTables :
        Collected(Settings(<<File(RenderTable(table))>>, TRUE, o[1], Strict, Expand, FALSE),
                  o[2], table)

NextTwice == NextResolve \/ SubstituteAgain
SpecTwice == InitTwice /\ [][NextTwice]_vars

----------------------------------------------------------------------------
(* bin/dotenv.rs: dotenv run --expand *)

\* a byte that is no valid UTF-8, and the character U+FFFD that a lossy
\* conversion puts in its place
InvalidByte == "<80>"
Replacement == "<fffd>"

to_string_lossy(bytes) ==
    [i \in 1..Len(bytes) |-> IF bytes[i] = InvalidByte THEN Replacement ELSE bytes[i]]

snapshot_process_env(env) == [k \in DOMAIN env |-> to_string_lossy(env[k])]

\* load_entries: a loader over the given file, with a memory target that
\* holds the snapshot of the environment
load_entries(text, override, env) ==
    /\ os_env = env
    /\ StartCall(Settings(<<File(text)>>, TRUE, override, Strict, Expand, FALSE),
                 snapshot_process_env(env))

\* execute_run: the variables the command is given on top of those it
\* inherits
command_env ==
    LET set == {i \in 1..Len(merged_entries) :
                   loader.override_existing \/ merged_entries[i].key \notin DOMAIN os_env}
    IN [k \in {merged_entries[i].key : i \in set} |->
           merged_entries[Max({i \in set : merged_entries[i].key = k})].value]

\* parse_only has returned the entries: the command is executed
ExecuteCommand ==
    /\ pc = "apply"
    /\ pc' = "exec"
    /\ target' = command_env
    /\ UNCHANGED <<loader, pass, os_env, target0, pathIdx, merged_entries, files_read,
                   parseVars, err, substVars, entryIdx, report>>

\* load_entries has failed: the error goes to stderr and the exit code is 1
ExitFailure ==
    /\ pc = "error"
    /\ pc' = "exit 1"
    /\ UNCHANGED <<loader, pass, os_env, target, target0, pathIdx, merged_entries,
                   files_read, parseVars, err, substVars, entryIdx, report>>

\* R=${V}, R=$V, R=x, V=1 then R=$V, and a line without "="
RunFiles ==
    {<<"R", "=", "$", "{", "V", "}", "\n">>,
     <<"R", "=", "a", "$", "V", "\n">>,
     <<"R", "=", "x", "\n">>,
     <<"V", "=", "1", "\n", "R", "=", "$", "V", "\n">>,
     <<"R", "\n">>}

\* inherited environments: V unset, V with a valid value, V with a value
\* that holds an invalid byte, and the same with R set
RunEnvs ==
    {EmptyMap, Map1("V", <<"f", "g">>), Map1("V", <<"f", InvalidByte, "g">>),
     Map1("V", <<InvalidByte>>),
     Map1("V", <<"f", InvalidByte, "g">>) @@ Map1("R", <<"o">>),
     Map1("W", <<InvalidByte>>) @@ Map1("V", <<"f">>)}

InitRun ==
    \E text \in RunFiles : \E env \in RunEnvs : \E override \in BOOLEAN :
        load_entries(text, override, env)

NextRun ==
    \/ ReadFile
    \/ CollectDone
    \/ ParseEntry
    \/ ParseFail
    \/ FinishFile
    \/ ResolverNew
    \/ ResolveEntryNow
    \/ ResolveEntryExpand
    \/ SubstitutionDone
    \/ ExpandPlaceholder
    \/ ExpandReturnToEntry
    \/ ExecuteCommand
    \/ ExitFailure

SpecRun == InitRun /\ [][NextRun]_vars

----------------------------------------------------------------------------
(* The parser on its own: the texts it is given *)

MaxLines == 4

\* statements: definitions of A and B (plain, exported, quoted, over two
\* lines), a comment, a statement without "="
Lines ==
    {<<"A", "=", "1">>,
     <<"B", "=", "$", "A">>,
     <<"e", "x", "p", "o", "r", "t", " ", "A", "=", "'", "3", "'">>,
     <<"B", "=", "\"", "p", "\n", "q", "\"">>,
     <<"#", "c">>,
     <<"A">>}

RECURSIVE JoinLines(_)
JoinLines(ls) ==
    IF ls = <<>> THEN <<>> ELSE Head(ls) \o <<"\n">> \o JoinLines(Tail(ls))

Texts == UNION {{JoinLines(ls) : ls \in [1..n -> Lines]} : n \in 0..MaxLines}

\* read_entries has read the file and calls the parser
Reading(settings, env) ==
    /\ loader = settings
    /\ target = env
    /\ target0 = env
    /\ pc = "parse"
    /\ pathIdx = 1
    /\ merged_entries = <<>>
    /\ files_read = 0
    /\ input = normalize_newlines(settings.paths[1].text)
    /\ offset = 0
    /\ line_num = 1
    /\ entries = <<>>
    /\ history = <<>>
    /\ err = NoErr
    /\ raw_values = EmptyMap
    /\ resolved_values = EmptyMap
    /\ frames = <<>>
    /\ entryIdx = 1
    /\ events = <<>>
    /\ report = EmptyReport
    /\ pass = 1
    /\ os_env = EmptyMap

MaxVal == 3

\* the texts of up to n characters over an alphabet
Words(chars, n) == UNION {[1..k -> chars] : k \in 0..n}

\* one statement of each kind, character by character:
\* K=w with w unquoted
UnquotedStatements ==
    {<<"K", "=">> \o w : w \in Words({"a", " ", "#", "\\"}, MaxVal)}
\* K="w"
DoubleQuotedStatements ==
    {<<"K", "=", "\"">> \o w \o <<"\"">> :
        w \in Words({"a", "\\", "\"", "n", "t", "$"}, MaxVal)}
\* K='w' and the same between backticks, with and without the closing quote
LiteralStatements ==
    UNION {{<<"K", "=", q>> \o w \o close : w \in Words({"a", "\\", "'"}, MaxVal)} :
              q \in {"'", Backtick}, close \in {<<>>, <<"'">>, <<Backtick>>}}
\* comments and blank lines
CommentStatements ==
    {pre \o <<"#">> \o w : pre \in {<<>>, <<" ">>},
                           w \in Words({"=", "'", "\"", "a"}, MaxVal)}
    \cup {<<>>, <<" ">>}
\* k=1 for a key k
KeyStatements ==
    {k \o <<"=", "1">> : k \in Words({"A", "%", "-", " ", NUL, "'"}, MaxVal)}

\* statements without "=": A's and spaces, and statements with the word export
SyntaxStatements ==
    Words({"A", " "}, MaxVal)
    \cup {EXPORT, EXPORT \o <<" ">>, EXPORT \o <<" ", "A">>, EXPORT \o <<" ", "A", " ">>,
          EXPORT \o <<"\t", " ", "A", "A">>, <<" ">> \o EXPORT \o <<" ", "#">>,
          EXPORT \o <<" ", "=", "1">>, EXPORT \o <<" ", "A", " ", "=", "1">>,
          EXPORT \o <<" ", "A", " ", "A", "=", "1">>, EXPORT \o <<"=", "1">>}

\* K=qxq and K=qp, line feed, qq for each quote q, followed by nothing, by
\* whitespace, by a comment or by other text
Tails ==
    {<<>>, <<" ">>, <<" ", "#", "c">>, <<"#", "c">>, <<"y">>, <<" ", "y">>,
     <<" ", "#", "'">>, <<" ", "#", "\"">>, <<"#", Backtick>>}
TailStatements ==
    {<<"K", "=", q>> \o body \o <<q>> \o tail :
        q \in {"'", "\"", Backtick}, body \in {<<"x">>, <<"p", "\n", "q">>}, tail \in Tails}

\* K=w with w unquoted and a quote character in it or in its comment
ApostropheStatements ==
    {<<"K", "=", "i">> \o w : w \in Words({"t", "'", "\"", Backtick, "#"}, MaxVal)}

StatementSet ==
    UnquotedStatements \cup DoubleQuotedStatements \cup LiteralStatements
    \cup CommentStatements \cup KeyStatements \cup SyntaxStatements \cup TailStatements
    \cup ApostropheStatements

\* the statement on the second line, between A=1 and B=2
LineA == <<"A", "=", "1">>
LineB == <<"B", "=", "2">>
Wrap(statement) == JoinLines(<<LineA, statement, LineB>>)

\* three lines with each kind of line end: a value that is open or closed
\* at the end of the first line, a second line that closes it or is a
\* comment, and B=2
LineEnds == {<<"\n">>, <<"\r", "\n">>, <<"\r">>}
NewlineTexts ==
    {first \o e[1] \o second \o e[2] \o LineB \o e[3] :
        first \in {<<"A", "=", "\"", "p">>, LineA},
        second \in {<<"q", "\"">>, <<"#", "c">>},
        e \in [1..3 -> LineEnds]}

InitParse ==
    \/ \E text \in NewlineTexts :
          Reading(Settings(<<File(text)>>, TRUE, FALSE, Strict, Expand, FALSE), EmptyMap)
    \/ \E text \in Texts : \E keys \in {Strict, Permissive} :
          Reading(Settings(<<File(text)>>, TRUE, FALSE, keys, Expand, FALSE), EmptyMap)
    \/ \E statement \in StatementSet : \E keys \in {Strict, Permissive} :
          Reading(Settings(<<File(Wrap(statement))>>, TRUE, FALSE, keys, Expand, FALSE),
                  EmptyMap)
    \/ \E statement \in DoubleQuotedStatements :
          Reading(Settings(<<File(Wrap(statement))>>, TRUE, FALSE, Strict, Disabled, FALSE),
                  EmptyMap)

NextParse ==
    \/ ParseSkip
    \/ ParseEntry
    \/ ParseFail
    \/ FinishFile

SpecParse == InitParse /\ [][NextParse]_vars

----------------------------------------------------------------------------
(* load() as a whole: the files and settings it is given *)

MaxFiles == 2
MaxLit == 4

\* B=$A, A=1$
FileAB == <<"B", "=", "$", "A", "\n", "A", "=", "1", "$", "\n">>
\* a comment, A=2, C=3
FileAC == <<"#", "c", "\n", "A", "=", "2", "\n", "C", "=", "3", "\n">>
\* D=4, a statement without "=", a statement without a key
FileBad == <<"D", "=", "4", "\n", "A", "\n", "=", "\n">>
\* a value the process environment refuses
FileNul == <<"C", "=", NUL, "\n">>

Paths == {File(FileAB), File(FileAC), File(FileBad), File(FileNul), Missing}
PathLists == UNION {[1..n -> Paths] : n \in 1..MaxFiles}

\* required, override_existing, key mode, substitution mode, process target,
\* base store
LoadOptions ==
    {<<FALSE, FALSE, Strict, Expand, FALSE, EmptyMap>>,
     <<FALSE, FALSE, Strict, Expand, FALSE, BaseAB>>,
     <<FALSE, TRUE, Strict, Expand, FALSE, BaseAB>>,
     <<TRUE, FALSE, Strict, Expand, FALSE, BaseCD>>,
     <<FALSE, FALSE, Strict, Disabled, FALSE, BaseAB>>,
     <<FALSE, TRUE, Permissive, Disabled, FALSE, BaseCD>>,
     <<FALSE, FALSE, Strict, Expand, TRUE, EmptyMap>>,
     <<TRUE, TRUE, Permissive, Expand, TRUE, BaseAB>>}

InitLoad ==
    \E paths \in PathLists : \E o \in LoadOptions :
        Start(Settings(paths, o[1], o[2], o[3], o[4], o[5]), o[6])

\* single-quoted contents: every text of dollar signs, braces, backslashes,
\* quotes and the letter A up to MaxLit characters, and three with line ends
LitChars == {"$", "{", "}", "\\", "'", "A"}
LitContents ==
    UNION {[1..n -> LitChars] : n \in 0..MaxLit}
    \cup {<<"$", "A", "\n", "$", "A">>, <<"$", "A", "\r">>, <<"\r", "\n">>}

KeyK == <<"K">>
\* the file K='c'
LitFile(c) == KeyK \o <<"=", "'">> \o c \o <<"'", "\n">>

BaseA == Map1("A", <<"e">>)
BaseAK == Map1("A", <<"e">>) @@ Map1("K", <<"o">>)

InitLiteral ==
    \E c \in LitContents : \E keys \in {Strict, Permissive} :
        \E o \in {<<FALSE, BaseA>>, <<TRUE, BaseAK>>} :
            Start(Settings(<<File(LitFile(c))>>, TRUE, o[1], keys, Expand, FALSE), o[2])

\* backtick-quoted contents: every text of dollar signs, backslashes and the
\* letter A up to MaxVal characters, in the file K=<backtick>c<backtick>
BacktickContents == Words({"$", "\\", "A"}, MaxVal)
BacktickFile(c) == KeyK \o <<"=", Backtick>> \o c \o <<Backtick, "\n">>

InitBacktick ==
    \E c \in BacktickContents : \E substitution \in {Expand, Disabled} :
        \E o \in {<<FALSE, BaseA>>, <<TRUE, BaseAK>>} :
            Start(Settings(<<File(BacktickFile(c))>>, TRUE, o[1], Strict, substitution,
                           FALSE), o[2])

\* double-quoted contents: every text of dollar signs, backslashes and the
\* letter A up to MaxVal characters, and an escaped backslash before $A and
\* before ${A}, in the file K="c"
DoubleContents ==
    Words({"$", "\\", "A"}, MaxVal)
    \cup {<<"\\", "\\", "$", "A">>, <<"\\", "\\", "$", "{", "A", "}">>}
DoubleFile(c) == KeyK \o <<"=", "\"">> \o c \o <<"\"", "\n">>

InitDouble ==
    \E c \in DoubleContents : \E o \in {<<FALSE, BaseA>>, <<TRUE, BaseAK>>} :
        Start(Settings(<<File(DoubleFile(c))>>, TRUE, o[1], Strict, Expand, FALSE), o[2])

Init == InitLoad \/ InitLiteral \/ InitBacktick \/ InitDouble

Next ==
    \/ ReadFile
    \/ ReadMissingSkip
    \/ ReadMissingFail
    \/ CollectDone
    \/ ParseSkip
    \/ ParseEntry
    \/ ParseFail
    \/ FinishFile
    \/ SubstitutionDisabled
    \/ ResolverNew
    \/ ResolveEntryNow
    \/ ResolveEntryExpand
    \/ SubstitutionDone
    \/ ExpandEscapedDollar
    \/ ExpandInertDollar
    \/ ExpandPlaceholder
    \/ ExpandRecurse
    \/ ExpandReturnToEntry
    \/ ExpandReturnToCaller
    \/ ApplySkip
    \/ ApplySet
    \/ ApplyFail
    \/ LoadDone

Spec == Init /\ [][Next]_vars

----------------------------------------------------------------------------
(* What the claims speak of *)

FileKeys == {merged_entries[i].key : i \in 1..Len(merged_entries)}
FinalValue(k) == merged_entries[IndexOfKey(merged_entries, k)].value
Resolving == pc \in {"subst", "resolve"}
SubstitutionOver == pc = "apply"
Events == {events[i] : i \in 1..Len(events)}
Mode == loader.key_parsing_mode

\* the raw value of a file key (the entries hold it until the resolver copies it)
RawOf(k) == IF pc = "subst" THEN FinalValue(k) ELSE raw_values[k]

\* the names of the placeholders of a value, from offset idx on
RECURSIVE PlaceholderNames(_, _, _)
PlaceholderNames(inp, idx, mode) ==
    LET d == IndexOf(inp, "$", idx)
        p == parse_placeholder(inp, d, mode)
    IN IF d >= Len(inp) THEN {}
       ELSE IF d > 0 /\ B(inp, d - 1) = "\\" THEN PlaceholderNames(inp, d + 1, mode)
       ELSE IF ~p.ok THEN PlaceholderNames(inp, d + 1, mode)
       ELSE {Slice(inp, p.name_start, p.name_end)}
            \cup PlaceholderNames(inp, p.token_end, mode)

\* the file keys a file key refers to, and those it reaches
RefsOf(k) == PlaceholderNames(RawOf(k), 0, Mode) \cap FileKeys
RECURSIVE Reach(_, _)
Reach(S, n) ==
    IF n = 0 THEN S ELSE Reach(S \cup UNION {RefsOf(k) : k \in S}, n - 1)
Acyclic == \A k \in FileKeys : k \notin Reach(RefsOf(k), Len(merged_entries))

\* what a placeholder stands for once every key is resolved.  With
\* emptyIsUnset, a ${NAME:-default} whose NAME is a file key with an empty
\* value stands for its default; without, it stands for that value.  (A NAME
\* the file does not define: the base store's value, and the default when
\* that is missing or empty.)
Denotes(name, token, has_default, default, emptyIsUnset) ==
    LET known == name \in FileKeys \/ name \in DOMAIN target0
        value == IF name \in FileKeys THEN FinalValue(name) ELSE target0[name]
        unset == (name \in FileKeys => emptyIsUnset) /\ has_default /\ value = <<>>
    IN IF known /\ ~unset THEN value
       ELSE IF has_default THEN default
       ELSE token

\* a raw value with every placeholder replaced by what it stands for
RECURSIVE Substituted(_, _, _, _)
Substituted(inp, idx, cursor, emptyIsUnset) ==
    LET d == IndexOf(inp, "$", idx)
        p == parse_placeholder(inp, d, Mode)
    IN IF d >= Len(inp) THEN From(inp, cursor)
       ELSE IF d > 0 /\ B(inp, d - 1) = "\\"
       THEN Slice(inp, cursor, d - 1) \o <<"$">>
            \o Substituted(inp, d + 1, d + 1, emptyIsUnset)
       ELSE IF ~p.ok THEN Substituted(inp, d + 1, cursor, emptyIsUnset)
       ELSE Slice(inp, cursor, d)
            \o Denotes(Slice(inp, p.name_start, p.name_end), Slice(inp, d, p.token_end),
                       p.has_default, Slice(inp, p.default_start, p.default_end),
                       emptyIsUnset)
            \o Substituted(inp, p.token_end, p.token_end, emptyIsUnset)

----------------------------------------------------------------------------
(* C2: forward and chained references *)

C2_Case ==
    /\ SubstitutionOver
    /\ DOMAIN target0 \cap FileKeys = {}
    /\ Acyclic

\* C2 as claimed: with a base store that holds none of the file's keys and
\* acyclic references, every key resolves to its raw value with every
\* placeholder replaced by the resolved value of the key it names
C2_AsClaimed ==
    C2_Case => \A k \in FileKeys : FinalValue(k) = Substituted(RawOf(k), 0, 0, FALSE)

\* C2 amended: ... replaced by the resolved value of the key it names, or by
\* the default text when the placeholder has one and that value is empty;
\* whether the key is defined before or after the reference does not matter
C2_ForwardReferences ==
    C2_Case => \A k \in FileKeys : FinalValue(k) = Substituted(RawOf(k), 0, 0, TRUE)

C2_Witness ==
    /\ C2_Case
    /\ raw_values = (<<"A">> :> <<"$", "B">>) @@ (<<"B">> :> <<"$", "{", "C", "}">>)
                    @@ (<<"C">> :> <<"v", "a", "l", "u", "e">>)
    /\ \A k \in FileKeys : FinalValue(k) = <<"v", "a", "l", "u", "e">>

----------------------------------------------------------------------------
(* C1: duplicate keys *)

\* the parser has returned its entry list
Accepted == pc = "collect" /\ err = NoErr
Statements(key) == {i \in 1..Len(history) : history[i].key = key}

\* C1: the entry list the parser returns holds each key of the statements it
\* read once; the entry of a key carries the value and the line number of the
\* last statement that defines it, and the entries stand in the order of the
\* first statements of their keys
C1_DuplicateKeys ==
    Accepted =>
        /\ \A i, j \in 1..Len(entries) : entries[i].key = entries[j].key => i = j
        /\ {entries[i].key : i \in 1..Len(entries)}
               = {history[i].key : i \in 1..Len(history)}
        /\ \A i \in 1..Len(entries) :
              LET last == Max(Statements(entries[i].key))
              IN /\ entries[i].value = history[last].value
                 /\ entries[i].line = history[last].line
        /\ \A i, j \in 1..Len(entries) :
              i < j => Min(Statements(entries[i].key)) < Min(Statements(entries[j].key))

\* A, then B, then A again with another value: A stays first
C1_Witness ==
    /\ Accepted
    /\ Len(history) = 3
    /\ history[1].key = history[3].key
    /\ history[1].key # history[2].key
    /\ history[1].value # history[3].value
    /\ Len(entries) = 2
    /\ entries[1] = history[3]
    /\ entries[1].line = 3

----------------------------------------------------------------------------
(* C3: the substitution pass terminates *)

Chars == Upper \cup Lower \cup Digit \cup Punct \cup {" ", "\t", "\n", "\r", "\f", NUL}

Unstarted ==
    {k \in FileKeys : k \notin DOMAIN resolved_values /\ k \notin Range(Stack(frames))}

RECURSIVE WorkOfKeys(_)
WorkOfKeys(S) ==
    IF S = {} THEN 0
    ELSE LET k == CHOOSE x \in S : TRUE
         IN Len(RawOf(k)) + 3 + WorkOfKeys(S \ {k})

RECURSIVE WorkOfFrames(_)
WorkOfFrames(fs) ==
    IF fs = <<>> THEN 0
    ELSE (Len(Head(fs).input) - Head(fs).idx) + 1 + WorkOfFrames(Tail(fs))

\* the work the pass has left: it falls with every step
Measure ==
    IF ~Resolving THEN 0
    ELSE (IF pc = "subst" THEN 2 ELSE 1)
         + ((Len(merged_entries) + 1) - entryIdx)
         + WorkOfKeys(Unstarted)
         + WorkOfFrames(frames)

\* some step of the pass can be taken (at a placeholder: the resolver answers,
\* or it descends, which the bound on the depth must allow)
NotStuck ==
    \/ ENABLED (ResolverNew \/ ResolveEntryNow \/ ResolveEntryExpand \/ SubstitutionDone)
    \/ ENABLED (ExpandEscapedDollar \/ ExpandInertDollar)
    \/ ENABLED (ExpandReturnToEntry \/ ExpandReturnToCaller)
    \/ AtPlaceholder /\ (Resolved.push => Len(frames) <= Len(merged_entries))

C3_Safe ==
    /\ err = NoErr
    /\ Cardinality(Range(Stack(frames))) = Len(frames)
    /\ Len(frames) <= Len(merged_entries)
    /\ Measure >= 0
    /\ Resolving => NotStuck
    /\ SubstitutionOver =>
          \A i \in 1..Len(merged_entries) : merged_entries[i].value \in Seq(Chars)

\* C3: for every entry table (cycles included) and base store the pass ends,
\* with a string for every entry and no error: it is never stuck before its
\* end, every step lowers a natural-number measure, and the activations in
\* progress are of distinct keys (so never more than there are entries)
C3_Terminates == [](C3_Safe) /\ [][Measure' < Measure]_vars

\* a three-key cycle A -> B -> C -> A has been resolved
C3_Witness ==
    /\ SubstitutionOver
    /\ Len(merged_entries) = 3
    /\ RefsOf(<<"A">>) = {<<"B">>}
    /\ RefsOf(<<"B">>) = {<<"C">>}
    /\ RefsOf(<<"C">>) = {<<"A">>}
    /\ \E e \in Events : Len(e.stack) = 3 /\ e.name \in Range(e.stack)

----------------------------------------------------------------------------
(* C4: a name in progress is not expanded *)

\* the raw value of k is one placeholder, without default, that names k
SelfReference(k) ==
    LET raw == RawOf(k)
        p == parse_placeholder(raw, 0, Mode)
    IN /\ raw # <<>>
       /\ raw[1] = "$"
       /\ p.ok
       /\ ~p.has_default
       /\ p.token_end = Len(raw)
       /\ Slice(raw, p.name_start, p.name_end) = k

\* C4: a placeholder whose name is on the stack of keys in progress is
\* replaced by its default text if it has one and by its own token text
\* otherwise, whatever the base store holds for the name; so with
\* override_existing a key K = ${K} resolves to the text ${K}
C4_CycleNotExpanded ==
    /\ \A e \in Events :
          e.name \in Range(e.stack) =>
              e.result = (IF e.has_default THEN e.default ELSE e.token)
    /\ SubstitutionOver /\ loader.override_existing =>
          \A k \in FileKeys : SelfReference(k) => FinalValue(k) = RawOf(k)

C4_Witness ==
    /\ SubstitutionOver
    /\ loader.override_existing
    /\ \E k \in FileKeys \cap DOMAIN target0 :
          /\ SelfReference(k)
          /\ target0[k] # <<>>
          /\ FinalValue(k) = RawOf(k)
    /\ \E e \in Events : e.name \in Range(e.stack) /\ e.has_default

----------------------------------------------------------------------------
(* C5: a key the base store holds, without override_existing *)

Kept(k) == ~loader.override_existing /\ k \in FileKeys \cap DOMAIN target0

C5_ValueKept(k) ==
    /\ k \notin Range(Stack(frames))
    /\ k \in DOMAIN resolved_values => resolved_values[k] = target0[k]
    /\ SubstitutionOver => FinalValue(k) = target0[k]

\* C5 as claimed: the resolver's value for such a key is the base store's,
\* its raw value is never expanded, and every placeholder that names it
\* expands to the base store's value
C5_AsClaimed ==
    \A k \in FileKeys :
        Kept(k) => /\ C5_ValueKept(k)
                   /\ \A e \in Events : e.name = k => e.result = target0[k]

\* C5 amended: ... and every placeholder that names it expands to the base
\* store's value, or to the placeholder's default text when it has one and
\* that value is empty
C5_BaseValueKept ==
    \A k \in FileKeys :
        Kept(k) => /\ C5_ValueKept(k)
                   /\ \A e \in Events :
                         e.name = k =>
                             e.result = (IF e.has_default /\ target0[k] = <<>>
                                         THEN e.default ELSE target0[k])

C5_Witness ==
    /\ SubstitutionOver
    /\ \E k \in FileKeys :
          /\ Kept(k)
          /\ RawOf(k) # target0[k]
          /\ FinalValue(k) = target0[k]
          /\ \E e \in Events : e.name = k /\ e.key # k /\ e.result = target0[k]

----------------------------------------------------------------------------
(* C7: a name the file does not define *)

\* C7 as claimed: such a placeholder expands to the base store's value if
\* there is one, else to its default text if it has one, else stays as it is
C7_AsClaimed ==
    \A e \in Events :
        e.name \notin FileKeys =>
            e.result = (IF e.name \in DOMAIN target0 THEN target0[e.name]
                        ELSE IF e.has_default THEN e.default
                        ELSE e.token)

\* C7 amended: ... expands to the base store's value if there is one (and, when
\* the placeholder has a default, that value is not empty), else to its
\* default text if it has one, else stays as it is
C7_MissingName ==
    \A e \in Events :
        e.name \notin FileKeys =>
            e.result = (IF e.name \in DOMAIN target0
                           /\ ~(e.has_default /\ target0[e.name] = <<>>)
                        THEN target0[e.name]
                        ELSE IF e.has_default THEN e.default
                        ELSE e.token)

C7_Witness ==
    /\ SubstitutionOver
    /\ \E e \in Events :
          /\ e.name \notin FileKeys
          /\ e.name \in DOMAIN target0
          /\ e.result = target0[e.name]
          /\ e.result # <<>>
    /\ \E e \in Events :
          /\ e.name \notin FileKeys
          /\ e.name \notin DOMAIN target0
          /\ e.result = e.token

----------------------------------------------------------------------------
(* C8: ${NAME:-default} under strict keys *)

Known(name) == name \in FileKeys \/ name \in DOMAIN target0
ValueOf(name) == IF name \in FileKeys THEN FinalValue(name) ELSE target0[name]
\* NAME's resolved value if it is not empty, the default text otherwise
ValueOrDefault(e) ==
    IF Known(e.name) /\ ValueOf(e.name) # <<>> THEN ValueOf(e.name) ELSE e.default

\* C8 as claimed: ${NAME:-default} expands to NAME's resolved value when that
\* is not empty, and to the default text when NAME is undefined or empty
C8_AsClaimed ==
    SubstitutionOver /\ Mode = Strict =>
        \A e \in Events : e.has_default => e.result = ValueOrDefault(e)

\* C8 amended: ... provided NAME is not itself being resolved when the
\* placeholder is expanded (a reference cycle), in which case it expands to
\* the default text
C8_DefaultFallback ==
    SubstitutionOver /\ Mode = Strict =>
        \A e \in Events :
            e.has_default =>
                e.result = (IF e.name \in Range(e.stack) THEN e.default
                            ELSE ValueOrDefault(e))

C8_Witness ==
    /\ SubstitutionOver
    /\ Mode = Strict
    /\ \E e \in Events :
          /\ e.has_default
          /\ e.name \in FileKeys
          /\ FinalValue(e.name) = <<>>
          /\ e.result = e.default
    /\ \E e \in Events :
          /\ ~e.has_default
          /\ e.name \in FileKeys
          /\ FinalValue(e.name) = <<>>
          /\ e.result = <<>>

----------------------------------------------------------------------------
(* C9: no operator split under permissive keys *)

Braced(token) == Len(token) >= 3 /\ token[2] = "{"

\* C9: under permissive keys a placeholder never has a default, a braced
\* placeholder names the key spelled by the whole text between its braces,
\* and it expands to that key's value (or stays as it is when there is no
\* such key or the key is in progress), never to a default text
C9_NoOperatorSplit ==
    Mode = Permissive =>
        \A e \in Events :
            /\ ~e.has_default
            /\ Braced(e.token) => e.name = SubSeq(e.token, 3, Len(e.token) - 1)
            /\ SubstitutionOver =>
                  e.result = (IF e.name \notin Range(e.stack) /\ Known(e.name)
                              THEN ValueOf(e.name) ELSE e.token)

C9_Witness ==
    /\ SubstitutionOver
    /\ Mode = Permissive
    /\ KeyCd \in FileKeys
    /\ \E e \in Events :
          /\ e.name = KeyCd
          /\ e.key # KeyCd
          /\ e.result = FinalValue(KeyCd)
          /\ e.result \notin {<<"d">>, <<"x", "d", "y">>, e.token}

----------------------------------------------------------------------------
(* C6: what a successful load changes *)

Loaded == pc = "done"
Present == FileKeys \cap DOMAIN target0

\* C6: after a successful load, without override_existing the keys the target
\* held before keep their values and the file entries that name them are the
\* skipped_existing ones, every other file entry is written and counted in
\* loaded; with override_existing every file entry is written and none is
\* skipped; keys no file entry names are unchanged; and loaded +
\* skipped_existing is the number of distinct keys of the merged entries
C6_LoadEffects ==
    Loaded =>
        /\ ~loader.override_existing =>
              /\ \A k \in DOMAIN target0 : target[k] = target0[k]
              /\ report.skipped_existing = Cardinality(Present)
              /\ \A k \in FileKeys \ Present : target[k] = FinalValue(k)
              /\ report.loaded = Cardinality(FileKeys \ Present)
        /\ loader.override_existing =>
              /\ \A k \in FileKeys : target[k] = FinalValue(k)
              /\ report.skipped_existing = 0
              /\ report.loaded = Len(merged_entries)
        /\ DOMAIN target = DOMAIN target0 \cup FileKeys
        /\ \A k \in DOMAIN target0 \ FileKeys : target[k] = target0[k]
        /\ report.loaded + report.skipped_existing = Cardinality(FileKeys)
        /\ Cardinality(FileKeys) = Len(merged_entries)

\* two files that both define A, loaded into a store that holds A and B
C6_Witness ==
    /\ Loaded
    /\ ~loader.override_existing
    /\ files_read = 2
    /\ Len(history) < Len(loader.paths[1].text)
    /\ report.skipped_existing = 2
    /\ report.loaded = 1
    /\ DOMAIN target0 \ FileKeys = {}
    /\ \E k \in Present : FinalValue(k) # target0[k]

----------------------------------------------------------------------------
(* C10: single quotes suppress expansion *)

\* the file is K='c' for a text c
LitContent == SubSeq(loader.paths[1].text, 4, Len(loader.paths[1].text) - 2)
IsLitFile ==
    /\ Len(loader.paths) = 1
    /\ loader.paths[1].exists
    /\ Len(loader.paths[1].text) >= 5
    /\ loader.paths[1].text = LitFile(LitContent)

\* the number of consecutive backslashes that end at position i of c
RECURSIVE Backslashes(_, _)
Backslashes(c, i) ==
    IF i = 0 \/ c[i] # "\\" THEN 0 ELSE 1 + Backslashes(c, i - 1)

\* c between single quotes is a terminated value: no quote of c ends it
\* early and its backslashes do not escape the closing quote
Terminated(c) ==
    /\ \A i \in 1..Len(c) : c[i] = "'" => Backslashes(c, i - 1) % 2 = 1
    /\ Backslashes(c, Len(c)) % 2 = 0

C10_Case ==
    /\ IsLitFile
    /\ Terminated(LitContent)
    /\ loader.substitution_mode = Expand
    /\ KeyK \notin DOMAIN target0 \/ loader.override_existing

RoundTrip ==
    /\ err = NoErr
    /\ pc \in {"apply", "done"} =>
          /\ Len(merged_entries) = 1
          /\ merged_entries[1].key = KeyK
          /\ merged_entries[1].value = LitContent
    /\ pc = "done" => target[KeyK] = LitContent

\* C10 as claimed: for every terminated single-quoted content c, parsing
\* K='c' and resolving with substitution enabled gives K the value c, when
\* K's value is taken from the file
C10_AsClaimed == C10_Case => RoundTrip

\* C10 amended: ... for every terminated single-quoted content c that holds
\* no carriage return ... (the parser reads a carriage return as a line end)
C10_SingleQuotes == C10_Case /\ "\r" \notin Range(LitContent) => RoundTrip

\* K='${A}' loaded into a store where A is e
C10_Witness ==
    /\ pc = "done"
    /\ C10_Case
    /\ LitContent = <<"$", "{", "A", "}">>
    /\ target0[<<"A">>] = <<"e">>
    /\ target[KeyK] = LitContent

----------------------------------------------------------------------------
(* C11: escaped dollar signs *)

\* the scan of the innermost expansion stands at a dollar sign
AtDollar == pc = "resolve" /\ frames # <<>> /\ Dollar < Len(Top.input)
\* the dollar sign is taken as escaped / is scanned as a placeholder start
TakenAsEscaped == ENABLED ExpandEscapedDollar
ScannedAsPlaceholder == ENABLED ExpandInertDollar \/ AtPlaceholder
\* the step that takes the dollar sign as escaped emits one literal dollar
\* sign in place of the backslash and the dollar sign
EmitsLiteralDollar ==
    ExpandEscapedDollar =>
        /\ frames'[Len(frames)].out
              = Top.out \o Slice(Top.input, Top.cursor, Dollar - 1) \o <<"$">>
        /\ frames'[Len(frames)].idx = Dollar + 1
        /\ frames'[Len(frames)].cursor = Dollar + 1
        /\ events' = events

-----------------------------------------------------------------------------
(* C12: line numbers *)

\* the line feeds of the normalized input before offset i
LineFeedsBefore(i) == Cardinality({j \in 0..(i - 1) : B(input, j) = "\n"})

\* the statement at offset starts a line
AtLineStart == offset = 0 \/ B(input, offset - 1) = "\n"

\* a parse step that yields an entry records the line of its statement
RecordsLine ==
    ParseEntry =>
        /\ history' = Append(history, Parsed.entry)
        /\ Parsed.entry.line = 1 + LineFeedsBefore(offset)
        /\ \E i \in 1..Len(entries') : entries'[i] = Parsed.entry

\* C12: the line of every entry is 1 plus the number of line feeds of the
\* normalized input before the first character of its statement, also after
\* statements whose quoted value runs over several lines: the parser is always
\* at the start of a line whose number it holds, every entry it yields takes
\* that number, and the entries it returns are entries it yielded.
C12_LineNumbers ==
    /\ [](pc = "parse" /\ offset < Len(input) =>
             AtLineStart /\ line_num = 1 + LineFeedsBefore(offset))
    /\ [][RecordsLine]_vars
    /\ [](\A i \in 1..Len(entries) : \E j \in 1..Len(history) : entries[i] = history[j])

C12_Witness ==
    /\ Accepted
    /\ input = <<"B", "=", "\"", "p", "\n", "q", "\"", "\n", "A", "=", "1", "\n">>
    /\ Len(entries) = 2
    /\ entries[1].key = <<"B">> /\ entries[1].value = <<"p", "\n", "q">>
    /\ entries[1].line = 1
    /\ entries[2].key = <<"A">> /\ entries[2].line = 3

-----------------------------------------------------------------------------
(* C13: unterminated quotes *)

\* the characters a key may hold in each mode
StrictKeyChars == Upper \cup Lower \cup Digit \cup {"_", ".", "-"}
PermissiveKeyChars == (Upper \cup Lower \cup Digit \cup Punct) \ {"="}
KeyChars(mode) == IF mode = Strict THEN StrictKeyChars ELSE PermissiveKeyChars

\* a text without its export prefix
Unexported(t) ==
    IF starts_with(t, EXPORT) /\ Len(t) > Len(EXPORT) /\ is_whitespace(t[Len(EXPORT) + 1])
    THEN trim_start(From(t, Len(EXPORT))) ELSE t

\* the line that starts at offset: its end, its first "=", the text before
\* it without whitespace around it and without an export prefix, and the
\* first character after the "=" that is not whitespace
LineEnd == IndexOf(input, "\n", offset)
EqAt == IndexOf(input, "=", offset)
LineHead == trim_start(Slice(input, offset, Min({EqAt, LineEnd})))
KeyText == trim_end(Unexported(LineHead))
ValueAt == Min({i \in (EqAt + 1)..LineEnd : i = LineEnd \/ ~is_whitespace(B(input, i))})

\* the line at offset is KEY=value with a valid key
KeyValueLine ==
    /\ pc \in {"parse", "error"}
    /\ offset < Len(input)
    /\ EqAt < LineEnd
    /\ KeyText # <<>>
    /\ LineHead[1] # "#"
    /\ Range(KeyText) \subseteq KeyChars(loader.key_parsing_mode)

\* the value of that line opens a quote
QuotedValue ==
    /\ KeyValueLine
    /\ ValueAt < LineEnd
    /\ B(input, ValueAt) \in {"'", "\"", Backtick}

\* no unescaped matching quote follows before the end of the input
Unclosed ==
    \A j \in (ValueAt + 1)..(Len(input) - 1) :
        B(input, j) = B(input, ValueAt) => Backslashes(input, j) % 2 = 1

\* C13: a value that opens with a single quote, a double quote or a backtick
\* and has no unescaped matching quote before the end of the input makes the
\* parse fail with UnterminatedQuote, reported at the line where the statement
\* starts.
C13_UnterminatedQuote ==
    QuotedValue /\ Unclosed =>
        /\ Parsed.kind = "err"
        /\ Parsed.error.kind = "UnterminatedQuote"
        /\ Parsed.error.line = 1 + LineFeedsBefore(offset)
        /\ pc = "error" => err = [kind |-> "Parse", error |-> Parsed.error]

C13_Witness ==
    /\ pc = "error"
    /\ QuotedValue /\ Unclosed
    /\ input = <<"A", "=", "1", "\n", "K", "=", "'", "a", "\\", "'", "\n",
                 "B", "=", "2", "\n">>
    /\ err.error.kind = "UnterminatedQuote"
    /\ err.error.line = 2
    /\ Len(history) = 1

-----------------------------------------------------------------------------
(* C14: key validation *)

ValidKey(key) ==
    key # <<>> /\ Range(key) \subseteq KeyChars(loader.key_parsing_mode)

\* the line at offset is a statement (not a comment) with a key that holds a
\* character its mode does not allow
BadKeyLine ==
    /\ pc \in {"parse", "error"}
    /\ offset < Len(input)
    /\ EqAt < LineEnd
    /\ KeyText # <<>>
    /\ LineHead[1] # "#"
    /\ ~(Range(KeyText) \subseteq KeyChars(loader.key_parsing_mode))

\* the line at offset is %A%=...
PercentLine ==
    /\ pc \in {"parse", "error"}
    /\ offset < Len(input)
    /\ EqAt < LineEnd
    /\ KeyText = <<"%", "A", "%">>

\* C14: every entry of a parse has a non-empty key whose characters are
\* those of the active key mode (Strict: letters, digits, "_", "." and "-";
\* Permissive: the printable ASCII characters but "="), a statement whose key
\* holds another character fails the parse with InvalidKey, and a key between
\* percent signs is rejected in Strict mode and kept as it is in Permissive
\* mode.
C14_ValidKeys ==
    /\ \A i \in 1..Len(entries) : ValidKey(entries[i].key)
    /\ \A i \in 1..Len(history) : ValidKey(history[i].key)
    /\ \A i \in 1..Len(merged_entries) : ValidKey(merged_entries[i].key)
    /\ BadKeyLine =>
          /\ Parsed.kind = "err"
          /\ Parsed.error.kind = "InvalidKey"
          /\ Parsed.error.line = line_num
          /\ pc = "error" => err = [kind |-> "Parse", error |-> Parsed.error]
    /\ PercentLine =>
          IF loader.key_parsing_mode = Strict
          THEN Parsed.kind = "err" /\ Parsed.error.kind = "InvalidKey"
          ELSE Parsed.kind = "entry" /\ Parsed.entry.key = <<"%", "A", "%">>

C14_Witness ==
    /\ Accepted
    /\ loader.key_parsing_mode = Permissive
    /\ input = <<"A", "=", "1", "\n", "%", "A", "%", "=", "1", "\n", "B", "=", "2", "\n">>
    /\ Len(merged_entries) = 3
    /\ merged_entries[2].key = <<"%", "A", "%">>

-----------------------------------------------------------------------------
(* C15: no partial results *)

\* the error of the first malformed statement of the input from offset off,
\* which is on line ln, or no error
RECURSIVE FirstMalformed(_, _)
FirstMalformed(off, ln) ==
    IF off >= Len(input) THEN NoErr
    ELSE LET seg == ScanStatement(input, off, 0, "", FALSE)
             p == parse_line(Slice(input, off, seg.idx), ln, loader.key_parsing_mode,
                             loader.substitution_mode = Expand)
             next == IF seg.idx < Len(input) THEN seg.idx + 1 ELSE seg.idx
         IN IF p.kind = "err" THEN [kind |-> "Parse", error |-> p.error]
            ELSE FirstMalformed(next, ln + seg.newline_count)

ParseFailed == pc = "error" /\ err.kind = "Parse"

\* a malformed statement ends the load at once: the error is the result, the
\* entries of the file so far go nowhere
Aborts ==
    pc = "parse" /\ offset < Len(input) /\ Parsed.kind = "err" =>
        /\ pc' = "error"
        /\ err' = [kind |-> "Parse", error |-> Parsed.error]
        /\ merged_entries' = merged_entries
        /\ target' = target
        /\ report' = report

\* after an error nothing more happens
Stopped == pc = "error" => UNCHANGED vars

\* C15: a parse has no partial result and a load that meets a parse error
\* leaves the target as it was: the parse of a file with a malformed
\* statement ends with the error of the first such statement in input order
\* and hands over no entry, nothing runs after it, no report is made, and the
\* target store equals the store before the call, whatever earlier
\* statements and earlier files defined.
C15_NoPartialResults ==
    /\ [](ParseFailed =>
             /\ err = FirstMalformed(0, 1)
             /\ target = target0
             /\ report = EmptyReport
             /\ files_read = pathIdx - 1 - Cardinality({i \in 1..(pathIdx - 1) :
                                                          ~loader.paths[i].exists}))
    /\ [](pc = "parse" => (FirstMalformed(0, 1) = NoErr <=> FirstMalformed(offset, line_num) = NoErr))
    /\ [](pc \in {"subst", "resolve", "apply", "done"} => err = NoErr)
    /\ [][Aborts]_vars
    /\ [][Stopped]_vars

C15_Witness ==
    /\ ParseFailed
    /\ loader.paths = <<File(FileAB), File(FileBad)>>
    /\ loader.override_existing
    /\ Len(merged_entries) = 2
    /\ Len(history) = 1
    /\ history[1].key = <<"D">>
    /\ err.error.kind = "InvalidSyntax"
    /\ err.error.line = 2
    /\ target = target0

-----------------------------------------------------------------------------
(* C16: the merge of several files *)

KeysOf(table) == {table[i].key : i \in 1..Len(table)}
EntryOf(table, key) == table[CHOOSE i \in 1..Len(table) : table[i].key = key]

\* the keys of a table in the order of their entries
KeyOrder(table) == [i \in 1..Len(table) |-> table[i].key]

\* the keys of the file at hand that the merged table does not hold yet, in
\* file order
NewKeys == KeyOrder(SelectSeq(entries, LAMBDA e : e.key \notin KeysOf(merged_entries)))

\* the step that ends a file: the merged table takes the file's entries
MergesFile ==
    pc = "parse" /\ pc' = "collect" =>
        /\ KeyOrder(merged_entries') = KeyOrder(merged_entries) \o NewKeys
        /\ \A i, j \in 1..Len(merged_entries') :
              merged_entries'[i].key = merged_entries'[j].key => i = j
        /\ \A k \in KeysOf(entries) : EntryOf(merged_entries', k) = EntryOf(entries, k)
        /\ \A k \in KeysOf(merged_entries) \ KeysOf(entries) :
              EntryOf(merged_entries', k) = EntryOf(merged_entries, k)

\* C16: files loaded in path order merge into a table that holds each key
\* once; a key several files define carries the value and line of the last
\* file that defines it and stays where its first definition put it, keys a
\* file adds come after the keys of the files before it, and the target
\* receives the value that comes from the last file.
C16_LastFileWins ==
    /\ [][MergesFile]_vars
    /\ [](\A i, j \in 1..Len(merged_entries) :
             merged_entries[i].key = merged_entries[j].key => i = j)
    /\ [](Loaded => \A k \in FileKeys :
             loader.override_existing \/ k \notin DOMAIN target0 => target[k] = FinalValue(k))

C16_Witness ==
    /\ Loaded
    /\ loader.paths = <<File(FileAB), File(FileAC)>>
    /\ target0 = EmptyMap
    /\ KeyOrder(merged_entries) = <<<<"B">>, <<"A">>, <<"C">>>>
    /\ merged_entries[2].value = <<"2">>
    /\ merged_entries[2].line = 2
    /\ merged_entries[1].line = 1
    /\ target[<<"A">>] = <<"2">>
    /\ target[<<"B">>] = <<"2">>

-----------------------------------------------------------------------------
(* C17: comments and blank lines *)

\* the line at offset is blank or a comment
CommentLine ==
    /\ pc = "parse"
    /\ offset < Len(input)
    /\ LET head == trim_start(Slice(input, offset, LineEnd))
       IN head = <<>> \/ head[1] = "#"

\* C17: a blank line and a line whose first character that is not
\* whitespace is "#" are ignored: the line yields no entry and no error and
\* the statement that follows starts at the next line, whatever the comment
\* holds, "=" and quotes included.
C17_CommentsIgnored ==
    CommentLine =>
        /\ Parsed.kind = "none"
        /\ Segment.idx = LineEnd
        /\ Segment.newline_count = (IF LineEnd < Len(input) THEN 1 ELSE 0)

-----------------------------------------------------------------------------
(* C18: unquoted values *)

\* the value of the line at offset is not quoted
UnquotedValue ==
    /\ pc = "parse"
    /\ KeyValueLine
    /\ ValueAt < LineEnd => B(input, ValueAt) \notin {"'", "\"", Backtick}

\* the first "#" of the value that no backslash precedes, or the line end
UnescapedHash ==
    Min({i \in ValueAt..LineEnd :
           \/ i = LineEnd
           \/ B(input, i) = "#" /\ ~(i > ValueAt /\ B(input, i - 1) = "\\")})

\* C18: the value of a valid KEY=VALUE line with an unquoted value is the
\* text after the "=" without its leading whitespace, cut at the first "#"
\* that no backslash precedes or at the end of the line, and right-trimmed.
C18_UnquotedValue ==
    UnquotedValue =>
        /\ Parsed.kind = "entry"
        /\ Parsed.entry.key = KeyText
        /\ Parsed.entry.value = trim_end(Slice(input, ValueAt, UnescapedHash))

-----------------------------------------------------------------------------
(* C19: double-quoted values *)

Preserve == loader.substitution_mode = Expand

\* what an escaped character stands for
Escape(ch) ==
    CASE ch = "n" -> <<"\n">>
      [] ch = "r" -> <<"\r">>
      [] ch = "t" -> <<"\t">>
      [] ch = "\\" -> <<"\\">>
      [] ch = "\"" -> <<"\"">>
      [] ch = "$" -> (IF Preserve THEN <<"\\", "$">> ELSE <<"$">>)
      [] OTHER -> <<ch>>

\* the text a double-quoted content stands for: escape pairs from the left
RECURSIVE Decode(_)
Decode(c) ==
    IF c = <<>> THEN <<>>
    ELSE IF c[1] = "\\" /\ Len(c) >= 2 THEN Escape(c[2]) \o Decode(SubSeq(c, 3, Len(c)))
    ELSE <<c[1]>> \o Decode(Tail(c))

\* the first double quote after the opening one that is not escaped, or the
\* end of the input
ClosingQuote ==
    Min({j \in (ValueAt + 1)..Len(input) :
           \/ j = Len(input)
           \/ B(input, j) = "\"" /\ Backslashes(input, j) % 2 = 0})

\* the line at offset is KEY="content" and nothing but a comment follows the
\* closing quote on its line
DoubleQuotedValue ==
    /\ pc = "parse"
    /\ QuotedValue
    /\ B(input, ValueAt) = "\""
    /\ ClosingQuote < Len(input)
    /\ LET tail == trim_start(Slice(input, ClosingQuote + 1,
                                     IndexOf(input, "\n", ClosingQuote + 1)))
       IN tail = <<>> \/ tail[1] = "#"

\* C19: a double-quoted value ends at the first double quote that is not
\* escaped, also after an escaped backslash, and stands for its content with
\* \n, \r, \t, \\ and \" read as line feed, carriage return, tab, backslash
\* and double quote and every other escaped character read as itself, but
\* for \$, which stays \$ when literal dollars are preserved.
C19_DoubleQuoted ==
    DoubleQuotedValue =>
        /\ Parsed.kind = "entry"
        /\ Parsed.entry.key = KeyText
        /\ Parsed.entry.value = Decode(Slice(input, ValueAt + 1, ClosingQuote))

C19_Witness ==
    /\ Accepted
    /\ input = <<"A", "=", "1", "\n", "K", "=", "\"", "a", "\\", "\\", "\"", "\n",
                 "B", "=", "2", "\n">>
    /\ Len(entries) = 3
    /\ entries[2].key = <<"K">>
    /\ entries[2].value = <<"a", "\\">>
    /\ entries[3].line = 3

-----------------------------------------------------------------------------
(* C20: backticks and single quotes *)

\* the file is K=<backtick>c<backtick> for a text c
IsBacktickFile ==
    /\ Len(loader.paths) = 1
    /\ loader.paths[1].exists
    /\ Len(loader.paths[1].text) >= 5
    /\ loader.paths[1].text = BacktickFile(LitContent)

\* what the parser makes of the same content between single quotes
SingleQuoted ==
    LET text == normalize_newlines(LitFile(LitContent))
        statement == Slice(text, 0, ScanStatement(text, 0, 0, "", FALSE).idx)
    IN parse_line(statement, 1, loader.key_parsing_mode, Preserve)

\* C20: a backtick-quoted value means what the single-quoted value of the
\* same content means: under the same key mode and the same treatment of
\* literal dollars the two statements fail with the same kind of error or
\* yield the same value, and after substitution K has the value that the
\* single-quoted statement gives it, which is the content itself.
C20_BacktickAsSingle ==
    IsBacktickFile =>
        /\ pc = "parse" /\ offset = 0 =>
              /\ Parsed.kind = SingleQuoted.kind
              /\ Parsed.kind = "err" => Parsed.error.kind = SingleQuoted.error.kind
              /\ Parsed.kind = "entry" => Parsed.entry.value = SingleQuoted.entry.value
        /\ Loaded /\ (KeyK \notin DOMAIN target0 \/ loader.override_existing) =>
              target[KeyK] = LitContent

-----------------------------------------------------------------------------
(* C21: a second substitution pass *)

\* the offsets of a value at which the text of a placeholder starts, and
\* those of its dollar signs that follow a backslash
PlaceholdersIn(value) ==
    {d \in 0..(Len(value) - 1) : B(value, d) = "$" /\ parse_placeholder(value, d, Mode).ok}
EscapedDollarsIn(value) ==
    {d \in 1..(Len(value) - 1) : B(value, d) = "$" /\ B(value, d - 1) = "\\"}

\* a pass over the values of an earlier pass has ended; raw_values holds the
\* values it was given, and they hold no placeholder
SecondPassOver ==
    /\ pc = "apply"
    /\ pass >= 2
    /\ DOMAIN raw_values = FileKeys
    /\ \A k \in FileKeys : PlaceholdersIn(raw_values[k]) = {}

Unchanged == \A k \in FileKeys : FinalValue(k) = raw_values[k]

\* C21 as claimed: when the values a substitution pass produced hold no
\* placeholder, a second pass over them with the same base store and flags
\* leaves every value as it is.
C21_AsClaimed == SecondPassOver => Unchanged

\* C21 amended: ... hold no placeholder and no dollar sign after a
\* backslash ... (the scan reads a backslash and a dollar sign as a dollar
\* sign in every pass)
C21_SecondPass ==
    SecondPassOver /\ (\A k \in FileKeys : EscapedDollarsIn(raw_values[k]) = {}) => Unchanged

\* A=\$ became $ in the first pass and stays $ in the second
C21_Witness ==
    /\ SecondPassOver
    /\ entries[1].value = <<"\\", "$">>
    /\ raw_values[<<"A">>] = <<"$">>
    /\ FinalValue(<<"A">>) = <<"$">>
    /\ target0 = EmptyMap

-----------------------------------------------------------------------------
(* C22: line ends *)

\* a text with each CRLF and each lone CR replaced by LF
RECURSIVE ReplaceLineEnds(_)
ReplaceLineEnds(t) ==
    IF t = <<>> THEN <<>>
    ELSE IF Len(t) >= 2 /\ t[1] = "\r" /\ t[2] = "\n"
    THEN <<"\n">> \o ReplaceLineEnds(SubSeq(t, 3, Len(t)))
    ELSE IF t[1] = "\r" THEN <<"\n">> \o ReplaceLineEnds(Tail(t))
    ELSE <<t[1]>> \o ReplaceLineEnds(Tail(t))

FileText == loader.paths[1].text

\* A="p CRLF q" CRLF B=2 CRLF
QuotedCrLf ==
    <<"A", "=", "\"", "p", "\r", "\n", "q", "\"", "\r", "\n", "B", "=", "2", "\r", "\n">>

\* C22: the style of the line ends does not change the result: what the
\* parser reads is the file's text with each CRLF and each lone CR replaced
\* by LF, a text that the replacement leaves as it is, so that the two texts
\* have the same entries and line numbers or the same error; and a CRLF
\* inside a quoted value over several lines is one LF in the value.
C22_NewlineStyle ==
    /\ input = ReplaceLineEnds(FileText)
    /\ normalize_newlines(ReplaceLineEnds(FileText)) = ReplaceLineEnds(FileText)
    /\ Accepted /\ FileText = QuotedCrLf =>
          entries = <<Entry(<<"A">>, <<"p", "\n", "q">>, 1), Entry(<<"B">>, <<"2">>, 3)>>

C22_Witness ==
    /\ Accepted
    /\ FileText = QuotedCrLf
    /\ Len(entries) = 2
    /\ entries[1].value = <<"p", "\n", "q">>
    /\ entries[2].line = 3

-----------------------------------------------------------------------------
(* C23: missing files *)

MissingPaths == {i \in 1..Len(loader.paths) : ~loader.paths[i].exists}
ExistingPaths == {i \in 1..Len(loader.paths) : loader.paths[i].exists}
Ended == pc \in {"done", "error"}
PastCollect == pc \in {"subst", "resolve", "apply", "done"}

\* a step that skips a missing file changes nothing but the path at hand
SkipsOnly ==
    /\ pc = "collect"
    /\ pathIdx <= Len(loader.paths)
    /\ ~loader.paths[pathIdx].exists
    /\ ~loader.required
    =>  /\ pathIdx' = pathIdx + 1
        /\ pc' = pc
        /\ UNCHANGED <<target, merged_entries, files_read, err, report>>

\* without required: missing files are not counted, and when every file is
\* missing the load reads, loads and changes nothing
Optional ==
    ~loader.required =>
        /\ PastCollect => files_read = Cardinality(ExistingPaths)
        /\ pc = "apply" \/ pc = "done" => report.files_read = Cardinality(ExistingPaths)
        /\ Loaded /\ ExistingPaths = {} =>
              report = EmptyReport /\ target = target0 /\ merged_entries = <<>>

----------------------------------------------------------------------------
(* C24 *)

NotUtf8(bytes) == InvalidByte \in Range(bytes)
Occurs(sub, s) == \E a \in 0..(Len(s) - Len(sub)) : Slice(s, a, a + Len(sub)) = sub
\* the file has a value that names k in a placeholder and no entry for k
RefersTo(k) ==
    /\ Occurs(<<"$">> \o k, input) \/ Occurs(<<"$", "{">> \o k \o <<"}">>, input)
    /\ ~Occurs(k \o <<"=">>, input)
RefersToNotUtf8 == \E k \in DOMAIN os_env : NotUtf8(os_env[k]) /\ RefersTo(k)

\* C24: when dotenv run --expand inherits a variable whose value is not valid
\* UTF-8 and a value of the file refers to it, the command is not executed
\* and no value holds a lossy conversion of the inherited one
C24_NotUtf8Fails ==
    RefersToNotUtf8 =>
        /\ pc # "exec"
        /\ \A i \in 1..Len(merged_entries) : Replacement \notin Range(merged_entries[i].value)

----------------------------------------------------------------------------
(* C25 *)

\* the loop of load is at an entry that it writes and the target refuses
SetVarFails ==
    /\ pc = "apply"
    /\ entryIdx <= Len(merged_entries)
    /\ ~(~loader.override_existing /\ contains_key(target, merged_entries[entryIdx].key))
    /\ loader.process
    /\ \/ NUL \in Range(merged_entries[entryIdx].key)
       \/ "=" \in Range(merged_entries[entryIdx].key)
       \/ NUL \in Range(merged_entries[entryIdx].value)
NotWritten(k) ==
    /\ k \in DOMAIN target <=> k \in DOMAIN target0
    /\ k \in DOMAIN target => target[k] = target0[k]
\* load has returned the failure of set_var for the entry at entryIdx
SetVarFailed == pc = "error" /\ err.kind = "Io" /\ pathIdx > Len(loader.paths)

\* C25: when the target refuses an entry, load returns that failure as an
\* error, the failing key is not written and no later entry is written
C25_WriteFailure ==
    /\ [][SetVarFails => pc' = "error" /\ err'.kind = "Io" /\ target' = target]_vars
    /\ [](SetVarFailed =>
             \A j \in entryIdx..Len(merged_entries) : NotWritten(merged_entries[j].key))
    /\ [][pc = "error" => target' = target]_vars

\* the first of three entries is refused: C with a NUL value, before A and B
C25_Witness ==
    /\ SetVarFailed
    /\ loader.process
    /\ entryIdx = 1
    /\ Len(merged_entries) = 3
    /\ NUL \in Range(merged_entries[1].value)
    /\ target = target0

----------------------------------------------------------------------------
(* C26: the kind and the position of an error *)

\* the line at offset, without its leading whitespace
StatementHead == trim_start(Slice(input, offset, LineEnd))
\* a statement starts at offset that is neither blank nor a comment
AtStatement ==
    /\ pc \in {"parse", "error"}
    /\ offset < Len(input)
    /\ StatementHead # <<>>
    /\ StatementHead[1] # "#"
NoEquals == LineEnd <= EqAt
Reports(kind, column) ==
    /\ Parsed.kind = "err"
    /\ Parsed.error.kind = kind
    /\ Parsed.error.column = column
    /\ Parsed.error.line = 1 + LineFeedsBefore(offset)
    /\ pc = "error" => err = [kind |-> "Parse", error |-> Parsed.error]
\* what the statement reports when it has no key or a key that is not valid
KeyErrors ==
    /\ NoEquals /\ Unexported(StatementHead) = <<>> => Reports("MissingKey", 1)
    /\ ~NoEquals /\ KeyText = <<>> => Reports("MissingKey", 1)
    /\ ~NoEquals /\ KeyText # <<>>
          /\ ~(Range(KeyText) \subseteq KeyChars(loader.key_parsing_mode)) =>
              Reports("InvalidKey", 1)

\* C26 as stated: ... a statement with no "=" gives InvalidSyntax whose column
\* is one past the end of the statement's trimmed text
C26_AsClaimed ==
    AtStatement =>
        /\ KeyErrors
        /\ NoEquals /\ Unexported(StatementHead) # <<>> =>
              Reports("InvalidSyntax", Len(trim_end(StatementHead)) + 1)

\* C26 amended: an empty key before "=", or nothing after an export prefix,
\* gives MissingKey at column 1; a key that fails the validator gives
\* InvalidKey at column 1; a statement with no "=" gives InvalidSyntax whose
\* column is one more than the length of the statement without its leading
\* whitespace and without its export prefix, trailing whitespace included;
\* the line of the error is the line of the statement
C26_ErrorPositions ==
    AtStatement =>
        /\ KeyErrors
        /\ NoEquals /\ Unexported(StatementHead) # <<>> =>
              Reports("InvalidSyntax", Len(Unexported(StatementHead)) + 1)

\* the second line is "export A ": InvalidSyntax at line 2, column 3
C26_Witness ==
    /\ pc = "error"
    /\ AtStatement
    /\ input = Wrap(EXPORT \o <<" ", "A", " ">>)
    /\ err = [kind |-> "Parse", error |-> ParseError(2, 3, "InvalidSyntax")]

----------------------------------------------------------------------------
(* C27: the text after a closing quote *)

\* the first quote after the opening one that matches it and is not escaped,
\* or the end of the input
MatchingQuote ==
    Min({j \in (ValueAt + 1)..Len(input) :
           \/ j = Len(input)
           \/ B(input, j) = B(input, ValueAt) /\ Backslashes(input, j) % 2 = 0})
\* the value of the statement at offset is quoted and closed
ClosedQuote == pc = "parse" /\ QuotedValue /\ MatchingQuote < Len(input)
\* the rest of the line of the closing quote
TailEnd == IndexOf(input, "\n", MatchingQuote + 1)
TailText == trim_start(Slice(input, MatchingQuote + 1, TailEnd))
\* the statement cut after its closing quote
UpToQuote ==
    parse_line(Slice(input, offset, MatchingQuote + 1), line_num, loader.key_parsing_mode,
               Preserve)

\* C27: after the closing quote of a value in single quotes, double quotes
\* or backticks the line holds nothing, whitespace, or whitespace and a
\* comment: the value is that of the quoted text and the next statement
\* starts at the next line, also when the value spans lines; any other text
\* makes the parse fail with InvalidSyntax
C27_TrailingText ==
    ClosedQuote =>
        IF TailText = <<>> \/ TailText[1] = "#"
        THEN /\ Parsed.kind = "entry"
             /\ Parsed.entry.value = UpToQuote.entry.value
             /\ Segment.idx = TailEnd
        ELSE /\ Parsed.kind = "err"
             /\ Parsed.error.kind = "InvalidSyntax"

----------------------------------------------------------------------------
(* C28: the order of resolution *)

\* expand_template over a raw value from idx on, in a resolver with this
\* stack and this memo: the expanded text and the memo afterwards
RECURSIVE ExpandAlone(_, _, _, _, _, _)
ExpandAlone(inp, idx, cursor, out, stack, memo) ==
    LET d == IndexOf(inp, "$", idx)
        p == parse_placeholder(inp, d, Mode)
        name == Slice(inp, p.name_start, p.name_end)
        default == Slice(inp, p.default_start, p.default_end)
        r == resolve_placeholder(name, Slice(inp, d, p.token_end), p.has_default, default,
                                 stack, memo, target0, raw_values, loader.override_existing)
        sub == ExpandAlone(raw_values[name], 0, 0, <<>>, Append(stack, name), memo)
        got == IF r.push
               THEN [value |-> value_or_default(sub.value, p.has_default, default),
                     memo |-> Memoize(sub.memo, name, sub.value)]
               ELSE [value |-> r.value, memo |-> r.memo]
    IN IF d >= Len(inp) THEN [value |-> out \o From(inp, cursor), memo |-> memo]
       ELSE IF is_escaped_dollar(inp, d)
       THEN ExpandAlone(inp, d + 1, d + 1, out \o Slice(inp, cursor, d - 1) \o <<"$">>,
                        stack, memo)
       ELSE IF ~p.ok THEN ExpandAlone(inp, d + 1, cursor, out, stack, memo)
       ELSE ExpandAlone(inp, p.token_end, p.token_end,
                        out \o Slice(inp, cursor, d) \o got.value, stack, got.memo)

\* resolve_entry for the key k in a resolver that has resolved nothing
ResolvedAlone(k) ==
    LET r == resolve_key(k, EmptyMap, target0, raw_values, loader.override_existing)
    IN IF r.push THEN ExpandAlone(raw_values[k], 0, 0, <<>>, <<k>>, EmptyMap).value
       ELSE r.value

\* C28: the value a substitution pass gives a key is the value that
\* resolving this key alone gives, with no key resolved before and no key in
\* progress, whatever the table (cycles included) and the base store
C28_OrderIndependent ==
    SubstitutionOver /\ DOMAIN raw_values = FileKeys =>
        \A k \in FileKeys : FinalValue(k) = ResolvedAlone(k)

----------------------------------------------------------------------------
(* C29: where an unquoted statement ends *)

\* C29: a statement whose value does not begin with a quote ends at the
\* first line feed: its value holds no line feed and the next line is a
\* statement of its own, also when the value or its comment holds a quote
C29_UnquotedEndsAtLineFeed ==
    UnquotedValue =>
        /\ Segment.idx = LineEnd
        /\ Parsed.kind = "entry" => "\n" \notin Range(Parsed.entry.value)

----------------------------------------------------------------------------
(* C30: an escaped backslash before a placeholder *)

KeyA == <<"A">>
\* the file is K="\\$A" or K="\\${A}": an escaped backslash, then a
\* placeholder that names A
EscapedBackslashFile ==
    /\ Len(loader.paths) = 1
    /\ loader.paths[1].exists
    /\ loader.paths[1].text \in {DoubleFile(<<"\\", "\\", "$", "A">>),
                                 DoubleFile(<<"\\", "\\", "$", "{", "A", "}">>)}

\* C30: with substitution, the double-quoted text of an escaped backslash
\* followed by a placeholder for A yields one backslash followed by the
\* value of A
C30_EscapedBackslash ==
    EscapedBackslashFile /\ loader.substitution_mode = Expand /\ pc \in {"apply", "done"} =>
        FinalValue(KeyK) = <<"\\">> \o target0[KeyA]

====
